---- MODULE Spec2Model ----
(***************************************************************************)
(* lightloggo: the asynchronous route pipeline.                            *)
(*                                                                         *)
(* A Logger owns routes; every route owns a buffered channel, a closed     *)
(* flag under an RWMutex and one consumer goroutine.  Producers emit       *)
(* through the bridge (LogN) or the logger (Logger.log); Logger.Close      *)
(* closes every route, cancels the context and joins the consumers.        *)
(*                                                                         *)
(* The repository holds three versions of RouteProcessor.Enqueue.  Each    *)
(* has its own specification over the same state:                          *)
(*   Spec            send under the read lock      (loggo/core/style.go)   *)
(*   SpecSnapshot    snapshot, unlock, then send   (loggo/core/router.go)  *)
(*   SpecNonBlocking select with default, dropping (loggo/core/style.go)   *)
(***************************************************************************)
EXTENDS Integers, Sequences, FiniteSets, TLC

(* ------------------------------ bounds -------------------------------- *)
\* emits the producers start, all together
MaxEmits == 3
\* capacity of a route's channel; the program uses 1024, the model a small
\* stand-in so that a full queue is reached
QueueCap == 2

\* calls of Write, Flush and Close on the file sink
MaxCalls == 3
\* seconds the wall clock advances
MaxTicks == 2
\* I/O errors the file system returns
MaxIoFaults == 1
\* characters of a string value
MaxStrLen == 4
\* handles makeID gives out
MaxHandles == 4

\* the routes the logger was constructed with, in registration order
Routes == {1, 2}
NumRoutes == Cardinality(Routes)
\* the goroutines that emit, and those that call Logger.Close
Producers == {"p1", "p2"}
Closers == {"c1", "c2"}

(* --------------------------- log levels ------------------------------- *)
Trace == 0
Debug == 10
Info == 20
Warning == 30
Error == 40
Exception == 50

\* the levels the severity-tagged entry points pass
Levels == {Trace, Debug, Info, Warning, Error, Exception}

\* the thresholds the routes are constructed with in the model
ThresholdConfigs == {[r \in Routes |-> IF r = 1 THEN Debug ELSE Warning]}

\* whether each route's writer has a Flush method, in the model
FlushableConfigs == {[r \in Routes |-> r = 1]}

\* the levels producers emit at in the model
EmitLevels == {Trace, Info, Error}

\* the entry a Flush call leaves in a sink log; no record has a negative id
FlushMark == [id |-> -1, level |-> Trace]

VARIABLES
    threshold,   \* RouteProcessor.LevelThreshold
    flushable,   \* whether Writer implements FlushableWriter
    queue,       \* RouteProcessor.queue: the channel's buffer
    chanClosed,  \* whether close(r.queue) has been executed
    closed,      \* RouteProcessor.closed
    readers,     \* RouteProcessor.mu: number of read locks held
    cpc,         \* position of the route's consumer goroutine
    sink,        \* calls the Writer has received, in order
    ctxDone,     \* Logger.ctx is cancelled
    wg,          \* Logger.wg counter
    ppc,         \* position of each producer
    pidx,        \* the route a producer's loop is at
    prec,        \* the record a producer is emitting
    emitted,     \* emits started so far
    built,       \* records built so far, the id of the latest one
    kpc,         \* position of each caller of Logger.Close
    kidx,        \* the route a Close loop is at
    panic,       \* "none", or the runtime panic that ended the process
    enq,         \* history: records in the order they entered the queue
    accepted,    \* history: records Enqueue found the route open for
    rejected,    \* history: records Enqueue returned on because closed
    closeCount,  \* history: executions of close(r.queue)
    exitVia,     \* history: whether the consumer left its loop on ctx.Done(),
                 \* "cancel", and with records still queued, "cancelPending"
    returnedAt,  \* history: sink as it was when a Logger.Close returned
    faults,      \* history: Format, Write and Flush calls that returned an error
    maxSizeMB,       \* FileWriter.maxSizeMB
    maxBackups,      \* FileWriter.maxBackups
    rotateInterval,  \* FileWriter.rotateInterval
    compressor,      \* whether FileWriter.compressor is set (gzip)
    file,            \* FileWriter.file: the handle, "open" or "closed"
    writer,          \* FileWriter.writer: the bufio.Writer over the handle
    size,            \* FileWriter.size
    nextRotateTime,  \* FileWriter.nextRotateTime, in seconds; 0 is time.Time{}
    active,          \* the file at path on disk, or NoFile
    backups,         \* the directory entries whose name starts with basename.
    now,             \* the wall clock, in seconds
    ioFaults,        \* I/O errors the file system has returned so far
    wpc,             \* position of the goroutine that calls the FileWriter
    wp,              \* the bytes of the Write call in progress
    wret,            \* what the last Write, Flush or Close returned
    gz,              \* the compression goroutines rotate has started
    calls,           \* history: FileWriter calls started so far
    rotations,       \* history: calls of rotate so far
    lastCall,        \* history: the last Write call as it found the writer
    formatter,       \* which Format is called: "json", "text", "json012", "jsonUnsorted"
    maxDepth,        \* JsonFormatter.MaxDepth, TextFormatter.MaxDepth
    heap,            \* the maps, slices and structs the record's values refer to
    fields,          \* LogRecord.Fields
    fpc,             \* position of the goroutine that calls Format
    stack,           \* the calls and deferred calls of Format still to run
    buf,             \* b, the bytes.Buffer of the call
    visited,         \* the visited map of the call
    out,             \* the bytes the last Format returned
    bufPool,         \* bufPool: the buffers put back
    strSlicePool,    \* strSlicePool: the backing arrays of the slices put back
    visitedPool,     \* visitedPool: the maps put back
    formats,         \* history: Format calls started so far
    prevOut,         \* history: the bytes the Format call before the last returned
    rendered,        \* history: the values rendered in full, with their depth
    zone,            \* t.Location(): the offset of local time from UTC, in seconds
    others,          \* the names in the directory of path that the sink did not create
    str,             \* the string value handed to the string rendering
    quoted,          \* what the string rendering wrote for it; empty before the call
    bridge,          \* which bridge is built: "export" (export.go) or "part012"
    storeMu,         \* storeMu: the caller that holds it, or "free"
    currentID,       \* currentID
    store,           \* the five typed stores: the values registered, with their handle
    dependencyStore, \* dependencyStore: handle -> the handles it was built from
    bpc,             \* the bridge call each host thread is in
    closedObjs,      \* history: the handles whose value had Close called by the bridge
    freed,           \* history: the loggers FreeLogger was called on, with their components
    fatal            \* the runtime has stopped the process: "concurrent map writes"

routeVars == <<threshold, flushable, queue, chanClosed, closed, readers>>
consumerVars == <<cpc, sink, exitVia>>
loggerVars == <<ctxDone, wg>>
producerVars == <<ppc, pidx, prec, emitted, built>>
closerVars == <<kpc, kidx, returnedAt>>
historyVars == <<enq, accepted, rejected, closeCount>>
fileVars == <<maxSizeMB, maxBackups, rotateInterval, compressor, file, writer,
              size, nextRotateTime, active, backups, now, ioFaults, wpc, wp,
              wret, gz, calls, rotations, lastCall>>
pipelineVars == <<routeVars, consumerVars, loggerVars, producerVars,
                  closerVars, historyVars, panic>>
fmtVars == <<formatter, maxDepth, heap, fields, fpc, stack, buf, visited, out,
             bufPool, strSlicePool, visitedPool, formats, prevOut, rendered>>
dirVars == <<zone, others>>
strVars == <<str, quoted>>
bridgeVars == <<bridge, storeMu, currentID, store, dependencyStore, bpc,
                closedObjs, freed, fatal>>
auxVars == <<dirVars, strVars, bridgeVars>>
vars == <<pipelineVars, faults, fileVars, fmtVars, auxVars>>

NoRecord == [id |-> 0, level |-> Trace]

(* ----------------------------- helpers -------------------------------- *)

\* the Write calls of a sink log, without the Flush calls
Writes(s) == SelectSeq(s, LAMBDA e : e /= FlushMark)

\* number of Flush calls in a sink log
Flushes(s) == Len(SelectSeq(s, LAMBDA e : e = FlushMark))

SeqSet(s) == {s[i] : i \in 1..Len(s)}

IsPrefix(s, t) == Len(s) <= Len(t) /\ SubSeq(t, 1, Len(s)) = s

(* --------------------------- RouteProcessor --------------------------- *)

\* ShouldLog with the comparison turned round
ShouldLogInverted(r, level) == level <= threshold[r]

ShouldLog(r, level) == level >= threshold[r]

\* Logger.AnyRouteShouldLog
AnyRouteShouldLog(level) == \E r \in Routes : ShouldLog(r, level)

\* NextAdmitting stopping at the first route of the snapshot
NextAdmittingFirstOnly(i, level) ==
    IF i = 1 /\ ShouldLog(1, level) THEN 1 ELSE NumRoutes + 1

\* the next route at or after i that admits the level, NumRoutes + 1 if none:
\* the loop "for _, r := range rts { if r.ShouldLog(level) { r.Enqueue } }"
RECURSIVE NextAdmitting(_, _)
NextAdmitting(i, level) ==
    IF i > NumRoutes THEN NumRoutes + 1
    ELSE IF ShouldLog(i, level) THEN i
    ELSE NextAdmitting(i + 1, level)

\* a writer is waiting in mu.Lock(): sync.RWMutex admits no new reader
WriterPending(r) == \E k \in Closers : kpc[k] = "lock" /\ kidx[k] = r

\* the logger as NewLogger returns it: every route open, empty and consumed
InitLogger ==
    /\ threshold \in ThresholdConfigs
    /\ flushable \in FlushableConfigs
    /\ queue = [r \in Routes |-> <<>>]
    /\ chanClosed = [r \in Routes |-> FALSE]
    /\ closed = [r \in Routes |-> FALSE]
    /\ readers = [r \in Routes |-> 0]
    /\ cpc = [r \in Routes |-> "select"]
    /\ sink = [r \in Routes |-> <<>>]
    /\ ctxDone = FALSE
    /\ wg = NumRoutes
    /\ pidx = [p \in Producers |-> 0]
    /\ prec = [p \in Producers |-> NoRecord]
    /\ emitted = 0
    /\ built = 0
    /\ kidx = [k \in Closers |-> 0]
    /\ panic = "none"
    /\ enq = [r \in Routes |-> <<>>]
    /\ accepted = [r \in Routes |-> {}]
    /\ rejected = [r \in Routes |-> {}]
    /\ closeCount = [r \in Routes |-> 0]
    /\ exitVia = [r \in Routes |-> "none"]
    /\ returnedAt = [k \in Closers |-> <<>>]

\* no file at path
NoFile == [size |-> -1, data |-> <<>>]

\* no Write call in progress
NoBytes == [id |-> 0, len |-> 0]

\* a bufio.Writer as bufio.NewWriter returns it
NewWriter == [buf |-> <<>>, n |-> 0, err |-> FALSE]

\* the route's writers are not a FileWriter: no file sink is constructed
NoFileWriter ==
    /\ maxSizeMB = 0
    /\ maxBackups = 0
    /\ rotateInterval = ""
    /\ compressor = FALSE
    /\ file = "closed"
    /\ writer = NewWriter
    /\ size = 0
    /\ nextRotateTime = 0
    /\ active = NoFile
    /\ backups = {}
    /\ now = 0
    /\ ioFaults = 0
    /\ wpc = "absent"
    /\ wp = NoBytes
    /\ wret = "none"
    /\ gz = <<>>
    /\ calls = 0
    /\ rotations = 0
    /\ lastCall = [len |-> 0, size |-> 0, now |-> 0]

\* the program runs in UTC, and the directory of path holds no file beside
\* those of the sink
NoStrings ==
    /\ str = <<>>
    /\ quoted = <<>>

\* the host threads that call into the bridge
Callers == {"t1", "t2"}

NoCall == [pc |-> "idle", op |-> "", kind |-> "", from |-> <<>>, deps |-> <<>>,
           id |-> 0]

\* the package variables of the bridge as declared; no call is made
NoBridgeCalls ==
    /\ storeMu = "free"
    /\ currentID = 1
    /\ store = {}
    /\ dependencyStore = {}
    /\ bpc = [t \in Callers |-> NoCall]
    /\ closedObjs = {}
    /\ freed = {}
    /\ fatal = FALSE

NoBridge ==
    /\ bridge = "none"
    /\ NoBridgeCalls

NoAux ==
    /\ zone = 0
    /\ others = {}
    /\ NoStrings
    /\ NoBridge

\* the routes' formatters are not called: no Format is in progress
NoFormatter ==
    /\ formatter = "none"
    /\ maxDepth = 0
    /\ heap = <<>>
    /\ fields = <<>>
    /\ fpc = "absent"
    /\ stack = <<>>
    /\ buf = <<>>
    /\ visited = {}
    /\ out = <<>>
    /\ bufPool = <<>>
    /\ strSlicePool = <<>>
    /\ visitedPool = <<>>
    /\ formats = 0
    /\ prevOut = <<>>
    /\ rendered = {}

\* two goroutines emit and one closes the logger
Init ==
    /\ InitLogger
    /\ faults = [r \in Routes |-> {}]
    /\ NoFileWriter
    /\ NoFormatter
    /\ NoAux
    /\ ppc = [p \in Producers |-> "idle"]
    /\ kpc = [k \in Closers |-> IF k = "c1" THEN "idle" ELSE "absent"]

\* one goroutine emits and two close the logger
InitRace ==
    /\ InitLogger
    /\ faults = [r \in Routes |-> {}]
    /\ NoFileWriter
    /\ NoFormatter
    /\ NoAux
    /\ ppc = [p \in Producers |-> IF p = "p1" THEN "idle" ELSE "absent"]
    /\ kpc = [k \in Closers |-> "idle"]

(* ----------------------------- FileWriter ----------------------------- *)

\* 1024*1024, the bytes of one MB of maxSizeMB
MiB == 1048576
\* 24 * time.Hour, in seconds
Day == 86400
\* the buffer of bufio.NewWriter
BufSize == 4096

\* the configurations NewFileWriter is called with in the model: without a
\* compressor, and with gzip
PlainConfigs ==
    {[maxSizeMB |-> 0, maxBackups |-> 0, rotateInterval |-> "", compressor |-> FALSE],
     [maxSizeMB |-> 1, maxBackups |-> 1, rotateInterval |-> "", compressor |-> FALSE],
     [maxSizeMB |-> 0, maxBackups |-> 1, rotateInterval |-> "day", compressor |-> FALSE],
     [maxSizeMB |-> 1, maxBackups |-> 0, rotateInterval |-> "day", compressor |-> FALSE]}
GzipConfigs ==
    {[maxSizeMB |-> 1, maxBackups |-> 1, rotateInterval |-> "", compressor |-> TRUE]}
\* the size of the file found at path, 0 when it had to be created
InitialSizes == {0, 2 * MiB}
\* len(p) of the Write calls
WriteLens == {1, MiB}
\* len(p) of the Write calls made while compressions run: each fills the
\* file to its limit
GzipWriteLens == {MiB}
\* the wall clock when NewFileWriter runs: the last second of a day
StartTime == Day - 1

\* time.Time is an instant in seconds since the epoch of the model, the
\* midnight UTC that starts Monday 2024-01-01; like the zero Time of Go the
\* epoch is a midnight UTC and a Monday.  Local time is the instant shifted
\* by the fixed offset zone.
Epoch == [year |-> 2024, month |-> 1, day |-> 1]

IsLeap(y) == y % 4 = 0 /\ (y % 100 /= 0 \/ y % 400 = 0)

DaysIn(y, m) ==
    IF m = 2 THEN (IF IsLeap(y) THEN 29 ELSE 28)
    ELSE IF m \in {4, 6, 9, 11} THEN 30 ELSE 31

\* the normalisation of time.Date: a month after December and a day after
\* the end of the month carry into the next year and the next month
RECURSIVE Civil(_, _, _)
Civil(y, m, d) ==
    IF m > 12 THEN Civil(y + 1, m - 12, d)
    ELSE IF d > DaysIn(y, m) THEN Civil(y, m + 1, d - DaysIn(y, m))
    ELSE [year |-> y, month |-> m, day |-> d]

\* the days from the epoch to the civil date y-m-d, normalised as above
RECURSIVE DayNumber(_, _, _)
DayNumber(y, m, d) ==
    IF m > 12 THEN DayNumber(y + 1, m - 12, d)
    ELSE IF m > 1 THEN DaysIn(y, m - 1) + DayNumber(y, m - 1, d)
    ELSE IF y > Epoch.year
         THEN (IF IsLeap(y - 1) THEN 366 ELSE 365) + DayNumber(y - 1, 1, d)
    ELSE d - 1

\* the day of the local calendar an instant falls on, counted from the epoch
LocalDay(t) == (t + zone) \div Day

\* t.Year(), t.Month(), t.Day()
CivilOf(t) == Civil(Epoch.year, Epoch.month, LocalDay(t) + 1)

\* t.Weekday(): Sunday is 0, Monday is 1
Weekday(t) == (LocalDay(t) + 1) % 7

\* time.Date(y, m, d, 0, 0, 0, 0, t.Location())
Date(y, m, d) == DayNumber(y, m, d) * Day - zone

\* the weekly branch without the step to the following week
nextRotationSameWeek(t, interval) ==
    IF interval = "day" THEN (t \div Day) * Day + Day
    ELSE IF interval = "week"
         THEN LET c == CivilOf(t)
              IN  Date(c.year, c.month, c.day + (1 - Weekday(t)))
    ELSE IF interval = "month"
         THEN LET c == CivilOf(t) IN Date(c.year, c.month + 1, 1)
    ELSE 0

\* nextRotation; Truncate rounds the instant down to a multiple of 24 hours
\* since the zero Time, whatever the location; the default branch is the
\* zero Time
nextRotation(t, interval) ==
    IF interval = "day" THEN (t \div Day) * Day + Day
    ELSE IF interval = "week"
         THEN LET c == CivilOf(t)
                  monday == 1 - Weekday(t)
                  offset == IF monday <= 0 THEN monday + 7 ELSE monday
              IN  Date(c.year, c.month, c.day + offset)
    ELSE IF interval = "month"
         THEN LET c == CivilOf(t) IN Date(c.year, c.month + 1, 1)
    ELSE 0

\* shouldRotateBySize never looking at the incoming bytes
shouldRotateBySizeIgnoringIncoming(incoming) ==
    maxSizeMB > 0 /\ size > maxSizeMB * MiB

shouldRotateByTime(t) ==
    IF rotateInterval = "" THEN FALSE ELSE t > nextRotateTime

shouldRotateBySize(incoming) ==
    maxSizeMB > 0 /\ size + incoming > maxSizeMB * MiB

\* append(p, '\n') written without the newline
BytesOnly(p) == [id |-> p.id, len |-> p.len, nl |-> 0]

\* append(p, '\n'): the bytes of the call followed by one newline
AppendNewline(p) == [id |-> p.id, len |-> p.len + 1, nl |-> 1]

\* a directory entry basename.<timestamp> or basename.<timestamp>.gz, with
\* the rotation whose bytes it holds
Archive(ts, compressed, rot) == [ts |-> ts, gz |-> compressed, rot |-> rot]

\* the entries of a set of archives that carry the given file name
Named(entries, ts, compressed) ==
    {e \in entries : e.ts = ts /\ e.gz = compressed}

\* sort.Strings on the archive names: the timestamp first, then the
\* uncompressed name before the name with the extension
NameBefore(a, b) ==
    \/ a.ts < b.ts
    \/ a.ts = b.ts /\ ~a.gz /\ b.gz

\* the n entries that sort first
Oldest(entries, n) ==
    {e \in entries : Cardinality({d \in entries : NameBefore(d, e)}) < n}

\* filepath.Base(fw.path), "app.log": a file name is the sequence of its
\* parts
Base == <<"app", ".", "log">>

\* strings.HasPrefix
HasPrefix(name, prefix) ==
    /\ Len(name) >= Len(prefix)
    /\ SubSeq(name, 1, Len(prefix)) = prefix

\* names the directory may hold beside the files of the sink: app.log.1,
\* app.log.keep, app.logx and other.log
ForeignNames ==
    {Base \o <<".", "1">>, Base \o <<".", "keep">>, Base \o <<"x">>,
     <<"other", ".", "log">>}

\* the directories NewFileWriter finds
Directories ==
    {{}, ForeignNames, {Base \o <<".", "1">>, <<"other", ".", "log">>},
     {Base \o <<".", "keep">>, Base \o <<"x">>}}

\* the place of a name under sort.Strings, which compares bytes: app.log
\* before app.log.1, the archives app.log.2024-... after it, then
\* app.log.keep, app.logx and other.log
SortKey(name) ==
    IF name = Base THEN 0
    ELSE IF name = Base \o <<".", "1">> THEN 1
    ELSE IF name = Base \o <<".", "keep">> THEN 3
    ELSE IF name = Base \o <<"x">> THEN 4
    ELSE 5
ArchiveKey == SortKey(Base \o <<".", "1">>) + 1

\* the file sink as NewFileWriter returns it, in one of the directories
NewFileWriterIn(configs, sizes, dirs) ==
    /\ \E c \in configs :
         /\ maxSizeMB = c.maxSizeMB
         /\ maxBackups = c.maxBackups
         /\ rotateInterval = c.rotateInterval
         /\ compressor = c.compressor
    /\ file = "open"
    /\ writer = NewWriter
    /\ size \in sizes
    /\ active = [size |-> size, data |-> <<>>]
    /\ now = StartTime
    /\ nextRotateTime = nextRotation(now, rotateInterval)
    /\ backups = {}
    /\ ioFaults = 0
    /\ wpc = "idle"
    /\ wp = NoBytes
    /\ wret = "none"
    /\ gz = <<>>
    /\ calls = 0
    /\ rotations = 0
    /\ lastCall = [len |-> 0, size |-> 0, now |-> 0]
    \* no logger is running beside the sink
    /\ InitLogger
    /\ NoFormatter
    /\ zone = 0
    /\ others \in dirs
    /\ NoStrings
    /\ NoBridge
    /\ faults = [r \in Routes |-> {}]
    /\ ppc = [p \in Producers |-> "absent"]
    /\ kpc = [k \in Closers |-> "absent"]

\* the file sink as NewFileWriter returns it, alone in its directory
NewFileWriter(configs, sizes) == NewFileWriterIn(configs, sizes, {{}})

InitFile == NewFileWriter(PlainConfigs, InitialSizes)

\* time.Hour, in seconds
Hour == 3600
\* the locations the program runs in: UTC-5, UTC and UTC+3
Zones == {0 - 5 * Hour, 0, 3 * Hour}
\* the values of RotateInterval: the three constants and the empty string
Intervals == {"day", "week", "month", ""}
\* the UTC days NewFileWriter is called on, counted from the epoch: Monday
\* 8 January, the Tuesday, Saturday and Sunday of that week, 31 January,
\* 29 February, 1 March and 31 December 2024
StartDays == {7, 8, 12, 13, 30, 59, 60, 365}
\* the time of day in UTC
StartSeconds == {0, 1, 2 * Hour, 12 * Hour, 22 * Hour, Day - 1}

\* NewFileWriter up to time.Now()
InitRotation ==
    /\ maxSizeMB = 0
    /\ maxBackups = 0
    /\ rotateInterval \in Intervals
    /\ compressor = FALSE
    /\ file = "open"
    /\ writer = NewWriter
    /\ size = 0
    /\ active = [size |-> 0, data |-> <<>>]
    /\ now \in {d * Day + sec : d \in StartDays, sec \in StartSeconds}
    /\ zone \in Zones
    /\ nextRotateTime = 0
    /\ backups = {}
    /\ ioFaults = 0
    /\ wpc = "new"
    /\ wp = NoBytes
    /\ wret = "none"
    /\ gz = <<>>
    /\ calls = 0
    /\ rotations = 0
    /\ lastCall = [len |-> 0, size |-> 0, now |-> 0]
    /\ InitLogger
    /\ NoFormatter
    /\ others = {}
    /\ NoStrings
    /\ NoBridge
    /\ faults = [r \in Routes |-> {}]
    /\ ppc = [p \in Producers |-> "absent"]
    /\ kpc = [k \in Closers |-> "absent"]

\* NewFileWriter: the struct literal with nextRotation(now, interval)
ScheduleRotation ==
    /\ wpc = "new"
    /\ wpc' = "idle"
    /\ nextRotateTime' = nextRotation(now, rotateInterval)
    /\ UNCHANGED <<maxSizeMB, maxBackups, rotateInterval, compressor, file,
                   writer, size, active, backups, now, ioFaults, wp, wret,
                   gz, calls, rotations, lastCall>>
    /\ UNCHANGED <<pipelineVars, faults, fmtVars, auxVars>>

\* with gzip the file at path is created by NewFileWriter
InitGzip == NewFileWriter(GzipConfigs, {0})

fileConfig == <<maxSizeMB, maxBackups, rotateInterval, compressor>>

\* whether the next call into the file system may return an error
FaultChoices == IF ioFaults < MaxIoFaults THEN BOOLEAN ELSE {FALSE}

Fault(failed) == ioFaults' = IF failed THEN ioFaults + 1 ELSE ioFaults

\* bufio.Writer.Flush on the handle: the buffered bytes reach the file when
\* the handle is open and the writer carries no earlier error
CanFlush == file = "open" /\ ~writer.err /\ active /= NoFile

Flushed(f) == [size |-> f.size + writer.n, data |-> f.data \o writer.buf]

\* the wall clock moves on by a second.  The program reads it in rotate
\* and, when time rotation is configured, at the start of Write; a second
\* that passes elsewhere is seen at the next of these reads
Tick ==
    /\ \/ wpc = "rotate"
       \/ wpc = "idle" /\ rotateInterval /= ""
    /\ now < StartTime + MaxTicks
    /\ now' = now + 1
    /\ UNCHANGED <<fileConfig, file, writer, size, nextRotateTime, active,
                   backups, ioFaults, wpc, wp, wret, gz, calls, rotations,
                   lastCall>>
    /\ UNCHANGED <<pipelineVars, faults, fmtVars, auxVars>>

\* FileWriter.Write: mu.Lock and the two rotation predicates
WriteCall(len) ==
    /\ wpc = "idle"
    /\ calls < MaxCalls
    /\ calls' = calls + 1
    /\ wp' = [id |-> calls + 1, len |-> len]
    /\ lastCall' = [len |-> len, size |-> size, now |-> now]
    /\ wpc' = IF shouldRotateByTime(now) \/ shouldRotateBySize(len)
              THEN "rotate" ELSE "append"
    /\ UNCHANGED <<fileConfig, file, writer, size, nextRotateTime, active,
                   backups, now, ioFaults, wret, gz, rotations>>
    /\ UNCHANGED <<pipelineVars, faults, fmtVars, auxVars>>

\* rotate: Flush, Close, Rename to path.<timestamp>, start the compressor
RotateRename ==
    /\ wpc = "rotate"
    /\ rotations' = rotations + 1
    /\ file' = "closed"
    /\ writer' = IF CanFlush THEN NewWriter
                 ELSE IF writer.n > 0 THEN [writer EXCEPT !.err = TRUE]
                 ELSE writer
    /\ \E failed \in FaultChoices :
         /\ Fault(failed)
         /\ IF failed \/ active = NoFile
            THEN /\ active' = IF CanFlush THEN Flushed(active) ELSE active
                 /\ wret' = "rotateErr"
                 /\ wpc' = "idle"
                 /\ wp' = NoBytes
                 /\ UNCHANGED <<backups, gz>>
            ELSE /\ active' = NoFile
                 /\ backups' = (backups \ Named(backups, now, FALSE))
                                 \cup {Archive(now, FALSE, rotations + 1)}
                 /\ gz' = IF compressor
                          THEN Append(gz, [src |-> now, pc |-> "open",
                                           rot |-> 0, ok |-> TRUE])
                          ELSE gz
                 /\ wpc' = "open"
                 /\ UNCHANGED <<wret, wp>>
    /\ UNCHANGED <<fileConfig, size, nextRotateTime, now, calls, lastCall>>
    /\ UNCHANGED <<pipelineVars, faults, fmtVars, auxVars>>

\* RotateOpen leaving fw.size as it was
RotateOpenKeepsSize ==
    /\ wpc = "open"
    /\ \E failed \in FaultChoices :
         /\ Fault(failed)
         /\ IF failed
            THEN /\ wret' = "rotateErr"
                 /\ wpc' = "idle"
                 /\ wp' = NoBytes
                 /\ UNCHANGED <<file, writer, size, active>>
            ELSE /\ active' = [size |-> 0, data |-> <<>>]
                 /\ file' = "open"
                 /\ writer' = NewWriter
                 /\ wpc' = "cleanup"
                 /\ UNCHANGED <<wret, wp, size>>
    /\ UNCHANGED <<fileConfig, nextRotateTime, backups, now, gz, calls,
                   rotations, lastCall>>
    /\ UNCHANGED <<pipelineVars, faults, fmtVars, auxVars>>

\* rotate: OpenFile(path, O_CREATE|O_WRONLY|O_APPEND), the new bufio.Writer,
\* fw.size = 0
RotateOpen ==
    /\ wpc = "open"
    /\ \E failed \in FaultChoices :
         /\ Fault(failed)
         /\ IF failed
            THEN /\ wret' = "rotateErr"
                 /\ wpc' = "idle"
                 /\ wp' = NoBytes
                 /\ UNCHANGED <<file, writer, size, active>>
            ELSE /\ active' = [size |-> 0, data |-> <<>>]
                 /\ file' = "open"
                 /\ writer' = NewWriter
                 /\ size' = 0
                 /\ wpc' = "cleanup"
                 /\ UNCHANGED <<wret, wp>>
    /\ UNCHANGED <<fileConfig, nextRotateTime, backups, now, gz, calls,
                   rotations, lastCall>>
    /\ UNCHANGED <<pipelineVars, faults, fmtVars, auxVars>>

\* cleanupBackups removing the newest names instead of the oldest
RotateCleanupNewest ==
    /\ wpc = "cleanup"
    /\ backups' = IF maxBackups <= 0 \/ Cardinality(backups) <= maxBackups
                  THEN backups
                  ELSE Oldest(backups, maxBackups)
    /\ wpc' = "append"
    /\ UNCHANGED <<fileConfig, file, writer, size, nextRotateTime, active,
                   now, ioFaults, wp, wret, gz, calls, rotations, lastCall>>
    /\ UNCHANGED <<pipelineVars, faults, fmtVars, auxVars>>

\* cleanupBackups with the given prefix: the names of the directory that
\* start with it are sorted, and all but the last maxBackups are removed.
\* The directory holds the file at path, the archives and the other names.
cleanupBackups(prefix) ==
    LET atPath == IF active /= NoFile /\ HasPrefix(Base, prefix)
                  THEN {Base} ELSE {}
        named == atPath \cup {o \in others : HasPrefix(o, prefix)}
        total == Cardinality(named) + Cardinality(backups)
        excess == total - maxBackups
        \* how many of the sorted names stand before the name
        Place(key) ==
            Cardinality({o \in named : SortKey(o) < key})
              + (IF key > ArchiveKey THEN Cardinality(backups) ELSE 0)
        PlaceOfArchive(e) ==
            Place(ArchiveKey) + Cardinality({d \in backups : NameBefore(d, e)})
    IN
    IF maxBackups <= 0 \/ total <= maxBackups
    THEN UNCHANGED <<active, backups, others>>
    ELSE /\ active' = IF Base \in named /\ Place(SortKey(Base)) < excess
                      THEN NoFile ELSE active
         /\ backups' = {e \in backups : PlaceOfArchive(e) >= excess}
         /\ others' = {o \in others :
                         HasPrefix(o, prefix) => Place(SortKey(o)) >= excess}

\* cleanupBackups taking basename for the prefix, without the dot
RotateCleanupBasePrefix ==
    /\ wpc = "cleanup"
    /\ cleanupBackups(Base)
    /\ wpc' = "append"
    /\ UNCHANGED <<fileConfig, file, writer, size, nextRotateTime,
                   now, ioFaults, wp, wret, gz, calls, rotations, lastCall>>
    /\ UNCHANGED <<pipelineVars, faults, fmtVars, zone, strVars, bridgeVars>>

\* rotate: cleanupBackups, with prefix := filepath.Base(fw.path) + "."
RotateCleanup ==
    /\ wpc = "cleanup"
    /\ cleanupBackups(Base \o <<".">>)
    /\ wpc' = "append"
    /\ UNCHANGED <<fileConfig, file, writer, size, nextRotateTime,
                   now, ioFaults, wp, wret, gz, calls, rotations, lastCall>>
    /\ UNCHANGED <<pipelineVars, faults, fmtVars, zone, strVars, bridgeVars>>

\* bufio.Writer.Write of the bytes c, n bytes long: (writer, file, bytes
\* taken, error) after it
BufWrite(c, failed) ==
    LET n == c.len
        avail == BufSize - writer.n
        copied == IF writer.n > 0 THEN avail ELSE 0
    IN
    IF writer.err
    THEN [writer |-> writer, active |-> active, nn |-> 0, err |-> TRUE]
    ELSE IF n <= avail
    THEN [writer |-> [buf |-> Append(writer.buf, c), n |-> writer.n + n,
                      err |-> FALSE],
          active |-> active, nn |-> n, err |-> FALSE]
    ELSE IF failed \/ file = "closed" \/ active = NoFile
    THEN [writer |-> [writer EXCEPT !.n = @ + copied, !.err = TRUE],
          active |-> active, nn |-> copied, err |-> TRUE]
    ELSE IF n - copied > BufSize
    THEN [writer |-> NewWriter,
          active |-> [size |-> active.size + writer.n + n,
                      data |-> active.data \o writer.buf \o <<c>>],
          nn |-> n, err |-> FALSE]
    ELSE [writer |-> [buf |-> <<c>>, n |-> n - copied, err |-> FALSE],
          active |-> [size |-> active.size + writer.n + copied,
                      data |-> active.data \o writer.buf],
          nn |-> n, err |-> FALSE]

\* Write: "n, err := fw.writer.Write(append(p, '\n')); fw.size += int64(n)"
WriteAppend ==
    /\ wpc = "append"
    /\ \E failed \in FaultChoices :
         LET res == BufWrite(AppendNewline(wp), failed) IN
         /\ failed => /\ ~writer.err
                      /\ wp.len + 1 > BufSize - writer.n
                      /\ file = "open"
         /\ Fault(failed)
         /\ writer' = res.writer
         /\ active' = res.active
         /\ size' = size + res.nn
         /\ wret' = IF res.err THEN "writeErr" ELSE "nil"
    /\ wpc' = "idle"
    /\ wp' = NoBytes
    /\ UNCHANGED <<fileConfig, file, nextRotateTime, backups, now, gz, calls,
                   rotations, lastCall>>
    /\ UNCHANGED <<pipelineVars, faults, fmtVars, auxVars>>

\* Flush answering an empty buffer with an error
FlushEmptyFails ==
    /\ wpc = "idle"
    /\ calls < MaxCalls
    /\ calls' = calls + 1
    /\ \E failed \in FaultChoices :
         /\ failed => writer.n > 0 /\ CanFlush
         /\ Fault(failed)
         /\ IF writer.err \/ writer.n = 0 \/ failed \/ ~CanFlush
            THEN /\ wret' = "flushErr"
                 /\ UNCHANGED <<writer, active>>
            ELSE /\ wret' = "flushNil"
                 /\ writer' = NewWriter
                 /\ active' = Flushed(active)
    /\ UNCHANGED <<fileConfig, file, size, nextRotateTime, backups, now, wpc,
                   wp, gz, rotations, lastCall>>
    /\ UNCHANGED <<pipelineVars, faults, fmtVars, auxVars>>

\* FileWriter.Flush
Flush ==
    /\ wpc = "idle"
    /\ calls < MaxCalls
    /\ calls' = calls + 1
    /\ \E failed \in FaultChoices :
         /\ failed => writer.n > 0 /\ CanFlush
         /\ Fault(failed)
         /\ IF writer.err
            THEN /\ wret' = "flushErr"
                 /\ UNCHANGED <<writer, active>>
            ELSE IF writer.n = 0
            THEN /\ wret' = "flushNil"
                 /\ UNCHANGED <<writer, active>>
            ELSE IF failed \/ ~CanFlush
            THEN /\ wret' = "flushErr"
                 /\ writer' = [writer EXCEPT !.err = TRUE]
                 /\ UNCHANGED active
            ELSE /\ wret' = "flushNil"
                 /\ writer' = NewWriter
                 /\ active' = Flushed(active)
    /\ UNCHANGED <<fileConfig, file, size, nextRotateTime, backups, now, wpc,
                   wp, gz, rotations, lastCall>>
    /\ UNCHANGED <<pipelineVars, faults, fmtVars, auxVars>>

\* FileWriter.Close: "_ = fw.writer.Flush(); return fw.file.Close()"
Close ==
    /\ wpc = "idle"
    /\ calls < MaxCalls
    /\ calls' = calls + 1
    /\ writer' = IF CanFlush THEN NewWriter
                 ELSE IF writer.n > 0 THEN [writer EXCEPT !.err = TRUE]
                 ELSE writer
    /\ active' = IF CanFlush THEN Flushed(active) ELSE active
    /\ file' = "closed"
    /\ wret' = IF file = "open" THEN "closeNil" ELSE "closeErr"
    /\ wpc' = "closed"
    /\ UNCHANGED <<fileConfig, size, nextRotateTime, backups, now, ioFaults,
                   wp, gz, rotations, lastCall>>
    /\ UNCHANGED <<pipelineVars, faults, fmtVars, auxVars>>

\* a compression goroutine that has returned
GzDone == [src |-> 0, pc |-> "done", rot |-> 0, ok |-> TRUE]

\* the compression goroutine g of rotate: Compress opens src
GzOpen(g) ==
    /\ g \in 1..Len(gz)
    /\ gz[g].pc = "open"
    /\ LET found == Named(backups, gz[g].src, FALSE) IN
       gz' = IF found = {}
             THEN [gz EXCEPT ![g].pc = "remove", ![g].ok = FALSE]
             ELSE [gz EXCEPT ![g].pc = "create",
                             ![g].rot = (CHOOSE e \in found : TRUE).rot]
    /\ UNCHANGED <<fileConfig, file, writer, size, nextRotateTime, active,
                   backups, now, ioFaults, wpc, wp, wret, calls, rotations,
                   lastCall>>
    /\ UNCHANGED <<pipelineVars, faults, fmtVars, auxVars>>

\* Compress creates dst and copies src into it through gzip; an error of
\* os.Create leaves no dst, an error of io.Copy leaves what was written
GzCompress(g) ==
    /\ g \in 1..Len(gz)
    /\ gz[g].pc = "create"
    /\ \E failed \in FaultChoices, created \in BOOLEAN :
         /\ ~failed => created
         /\ Fault(failed)
         /\ backups' = IF created
                       THEN (backups \ Named(backups, gz[g].src, TRUE))
                              \cup {Archive(gz[g].src, TRUE, gz[g].rot)}
                       ELSE backups
         /\ gz' = [gz EXCEPT ![g].pc = "remove", ![g].ok = ~failed]
    /\ UNCHANGED <<fileConfig, file, writer, size, nextRotateTime, active,
                   now, wpc, wp, wret, calls, rotations, lastCall>>
    /\ UNCHANGED <<pipelineVars, faults, fmtVars, auxVars>>

\* "_ = fw.compressor.Compress(src, dst); _ = os.Remove(src)"
GzRemove(g) ==
    /\ g \in 1..Len(gz)
    /\ gz[g].pc = "remove"
    /\ backups' = backups \ Named(backups, gz[g].src, FALSE)
    /\ gz' = [gz EXCEPT ![g] = GzDone]
    /\ UNCHANGED <<fileConfig, file, writer, size, nextRotateTime, active,
                   now, ioFaults, wpc, wp, wret, calls, rotations, lastCall>>
    /\ UNCHANGED <<pipelineVars, faults, fmtVars, auxVars>>

(* ------------------------------ producers ----------------------------- *)

\* the producer's loop moves on to the next admitting route, or returns
Advance(p, from) ==
    LET n == NextAdmitting(from, prec[p].level) IN
    IF n > NumRoutes
    THEN /\ ppc' = [ppc EXCEPT ![p] = "idle"]
         /\ pidx' = [pidx EXCEPT ![p] = 0]
         /\ prec' = [prec EXCEPT ![p] = NoRecord]
    ELSE /\ ppc' = [ppc EXCEPT ![p] = "enqueue"]
         /\ pidx' = [pidx EXCEPT ![p] = n]
         /\ prec' = prec

\* the bridge's LogN: return when no route admits the level, else build the
\* record once and offer it to each admitting route of the snapshot
LogN(p) ==
    /\ panic = "none"
    /\ ppc[p] = "idle"
    /\ emitted < MaxEmits
    /\ \E level \in EmitLevels :
         /\ emitted' = emitted + 1
         /\ IF ~AnyRouteShouldLog(level)
            THEN UNCHANGED <<ppc, pidx, prec, built>>
            ELSE LET rec == [id |-> built + 1, level |-> level]
                     n == NextAdmitting(1, level) IN
                 /\ built' = built + 1
                 /\ ppc' = [ppc EXCEPT ![p] = "enqueue"]
                 /\ pidx' = [pidx EXCEPT ![p] = n]
                 /\ prec' = [prec EXCEPT ![p] = rec]
    /\ UNCHANGED <<routeVars, consumerVars, loggerVars, closerVars,
                   historyVars, panic>>
    /\ UNCHANGED <<faults, fileVars, fmtVars, auxVars>>

\* EnqueueRLock without "if r.closed { return }"
EnqueueRLockNoCheck(p) ==
    LET r == pidx[p] IN
    /\ panic = "none"
    /\ ppc[p] = "enqueue"
    /\ ~WriterPending(r)
    /\ readers' = [readers EXCEPT ![r] = @ + 1]
    /\ ppc' = [ppc EXCEPT ![p] = "send"]
    /\ accepted' = [accepted EXCEPT ![r] = @ \cup {prec[p]}]
    /\ UNCHANGED <<pidx, prec, rejected>>
    /\ UNCHANGED <<threshold, flushable, queue, chanClosed, closed,
                   consumerVars, loggerVars, emitted, built, closerVars,
                   enq, closeCount, panic>>
    /\ UNCHANGED <<faults, fileVars, fmtVars, auxVars>>

\* Enqueue, send under the read lock: RLock and the closed check
EnqueueRLock(p) ==
    LET r == pidx[p] IN
    /\ panic = "none"
    /\ ppc[p] = "enqueue"
    /\ ~WriterPending(r)
    /\ IF closed[r]
       THEN /\ rejected' = [rejected EXCEPT ![r] = @ \cup {prec[p]}]
            /\ Advance(p, r + 1)
            /\ UNCHANGED <<readers, accepted>>
       ELSE /\ readers' = [readers EXCEPT ![r] = @ + 1]
            /\ ppc' = [ppc EXCEPT ![p] = "send"]
            /\ accepted' = [accepted EXCEPT ![r] = @ \cup {prec[p]}]
            /\ UNCHANGED <<pidx, prec, rejected>>
    /\ UNCHANGED <<threshold, flushable, queue, chanClosed, closed,
                   consumerVars, loggerVars, emitted, built, closerVars,
                   enq, closeCount, panic>>
    /\ UNCHANGED <<faults, fileVars, fmtVars, auxVars>>

\* EnqueueSend returning without the deferred RUnlock
EnqueueSendKeepsRLock(p) ==
    LET r == pidx[p] IN
    /\ panic = "none"
    /\ ppc[p] = "send"
    /\ IF chanClosed[r]
       THEN /\ panic' = "send on closed channel"
            /\ UNCHANGED <<queue, enq, ppc, pidx, prec>>
       ELSE /\ Len(queue[r]) < QueueCap
            /\ queue' = [queue EXCEPT ![r] = Append(@, prec[p])]
            /\ enq' = [enq EXCEPT ![r] = Append(@, prec[p])]
            /\ Advance(p, r + 1)
            /\ UNCHANGED panic
    /\ UNCHANGED <<threshold, flushable, chanClosed, closed, readers,
                   consumerVars, loggerVars, emitted, built, closerVars,
                   accepted, rejected, closeCount>>
    /\ UNCHANGED <<faults, fileVars, fmtVars, auxVars>>

\* Enqueue, send under the read lock: the channel send, then RUnlock
EnqueueSend(p) ==
    LET r == pidx[p] IN
    /\ panic = "none"
    /\ ppc[p] = "send"
    /\ IF chanClosed[r]
       THEN /\ panic' = "send on closed channel"
            /\ UNCHANGED <<queue, enq, readers, ppc, pidx, prec>>
       ELSE /\ Len(queue[r]) < QueueCap
            /\ queue' = [queue EXCEPT ![r] = Append(@, prec[p])]
            /\ enq' = [enq EXCEPT ![r] = Append(@, prec[p])]
            /\ readers' = [readers EXCEPT ![r] = @ - 1]
            /\ Advance(p, r + 1)
            /\ UNCHANGED panic
    /\ UNCHANGED <<threshold, flushable, chanClosed, closed, consumerVars,
                   loggerVars, emitted, built, closerVars, accepted, rejected,
                   closeCount>>
    /\ UNCHANGED <<faults, fileVars, fmtVars, auxVars>>

(* ---- Enqueue, the version that unlocks before it sends (router.go) ---- *)

\* RLock; closed := r.closed; q := r.queue; RUnlock; return when closed
EnqueueSnapshot(p) ==
    LET r == pidx[p] IN
    /\ panic = "none"
    /\ ppc[p] = "enqueue"
    /\ ~WriterPending(r)
    /\ IF closed[r]
       THEN /\ rejected' = [rejected EXCEPT ![r] = @ \cup {prec[p]}]
            /\ Advance(p, r + 1)
            /\ UNCHANGED accepted
       ELSE /\ ppc' = [ppc EXCEPT ![p] = "send"]
            /\ accepted' = [accepted EXCEPT ![r] = @ \cup {prec[p]}]
            /\ UNCHANGED <<pidx, prec, rejected>>
    /\ UNCHANGED <<routeVars, consumerVars, loggerVars, emitted, built, closerVars,
                   enq, closeCount, panic>>
    /\ UNCHANGED <<faults, fileVars, fmtVars, auxVars>>

\* q <- record, with no lock held: a send on a closed channel panics, also
\* when the sender was already blocked on the full channel
EnqueueSendUnlocked(p) ==
    LET r == pidx[p] IN
    /\ panic = "none"
    /\ ppc[p] = "send"
    /\ IF chanClosed[r]
       THEN /\ panic' = "send on closed channel"
            /\ UNCHANGED <<queue, enq, ppc, pidx, prec>>
       ELSE /\ Len(queue[r]) < QueueCap
            /\ queue' = [queue EXCEPT ![r] = Append(@, prec[p])]
            /\ enq' = [enq EXCEPT ![r] = Append(@, prec[p])]
            /\ Advance(p, r + 1)
            /\ UNCHANGED panic
    /\ UNCHANGED <<threshold, flushable, chanClosed, closed, readers,
                   consumerVars, loggerVars, emitted, built, closerVars, accepted,
                   rejected, closeCount>>
    /\ UNCHANGED <<faults, fileVars, fmtVars, auxVars>>

(* ---- Enqueue, the version with a non-blocking send (style.go) ---------- *)

\* Logger.log: build the record and offer it to each route that admits it
LoggerLog(p) ==
    /\ panic = "none"
    /\ ppc[p] = "idle"
    /\ emitted < MaxEmits
    /\ \E level \in EmitLevels :
         LET rec == [id |-> built + 1, level |-> level]
             n == NextAdmitting(1, level) IN
         /\ emitted' = emitted + 1
         /\ built' = built + 1
         /\ IF n > NumRoutes
            THEN UNCHANGED <<ppc, pidx, prec>>
            ELSE /\ ppc' = [ppc EXCEPT ![p] = "enqueue"]
                 /\ pidx' = [pidx EXCEPT ![p] = n]
                 /\ prec' = [prec EXCEPT ![p] = rec]
    /\ UNCHANGED <<routeVars, consumerVars, loggerVars, closerVars,
                   historyVars, panic>>
    /\ UNCHANGED <<faults, fileVars, fmtVars, auxVars>>

\* RLock; return when closed; select { case r.queue <- record: default: };
\* RUnlock.  Nothing in it waits once the read lock is held.
EnqueueNonBlocking(p) ==
    LET r == pidx[p] IN
    /\ panic = "none"
    /\ ppc[p] = "enqueue"
    /\ ~WriterPending(r)
    /\ IF closed[r]
       THEN /\ rejected' = [rejected EXCEPT ![r] = @ \cup {prec[p]}]
            /\ UNCHANGED <<queue, enq, accepted>>
       ELSE /\ accepted' = [accepted EXCEPT ![r] = @ \cup {prec[p]}]
            /\ UNCHANGED rejected
            /\ IF Len(queue[r]) < QueueCap
               THEN /\ queue' = [queue EXCEPT ![r] = Append(@, prec[p])]
                    /\ enq' = [enq EXCEPT ![r] = Append(@, prec[p])]
               ELSE UNCHANGED <<queue, enq>>
    /\ Advance(p, r + 1)
    /\ UNCHANGED <<threshold, flushable, chanClosed, closed, readers,
                   consumerVars, loggerVars, emitted, built, closerVars,
                   closeCount, panic>>
    /\ UNCHANGED <<faults, fileVars, fmtVars, auxVars>>

(* ------------------------------ consumer ------------------------------ *)

\* rawToRecord, Formatter.Format and Writer.Write for one record; the
\* formatters of the repository return no error, so Write is always called
Process(r, rec) == sink' = [sink EXCEPT ![r] = Append(@, rec)]

\* ConsumerRecv taking the newest record of the buffer instead of the oldest
ConsumerRecvNewest(r) ==
    /\ panic = "none"
    /\ cpc[r] = "select"
    /\ queue[r] /= <<>>
    /\ queue' = [queue EXCEPT ![r] = SubSeq(@, 1, Len(@) - 1)]
    /\ Process(r, queue[r][Len(queue[r])])
    /\ UNCHANGED <<threshold, flushable, chanClosed, closed, readers, cpc,
                   exitVia, loggerVars, producerVars, closerVars,
                   historyVars, panic>>
    /\ UNCHANGED <<faults, fileVars, fmtVars, auxVars>>

\* select: a record is received from the queue
ConsumerRecv(r) ==
    /\ panic = "none"
    /\ cpc[r] = "select"
    /\ queue[r] /= <<>>
    /\ queue' = [queue EXCEPT ![r] = Tail(@)]
    /\ Process(r, Head(queue[r]))
    /\ UNCHANGED <<threshold, flushable, chanClosed, closed, readers, cpc,
                   exitVia, loggerVars, producerVars, closerVars,
                   historyVars, panic>>
    /\ UNCHANGED <<faults, fileVars, fmtVars, auxVars>>

\* select: the receive reports the channel closed and empty; return
ConsumerChanClosed(r) ==
    /\ panic = "none"
    /\ cpc[r] = "select"
    /\ queue[r] = <<>>
    /\ chanClosed[r]
    /\ cpc' = [cpc EXCEPT ![r] = "drain"]
    /\ UNCHANGED <<routeVars, sink, exitVia, loggerVars, producerVars,
                   closerVars, historyVars, panic>>
    /\ UNCHANGED <<faults, fileVars, fmtVars, auxVars>>

\* ConsumerCtxDone returning without the deferred drainQueue
ConsumerCtxDoneNoDrain(r) ==
    /\ panic = "none"
    /\ cpc[r] = "select"
    /\ ctxDone
    /\ cpc' = [cpc EXCEPT ![r] = "flushed"]
    /\ exitVia' = [exitVia EXCEPT ![r] = IF queue[r] = <<>> THEN "cancel"
                                         ELSE "cancelPending"]
    /\ UNCHANGED <<routeVars, sink, loggerVars, producerVars, closerVars,
                   historyVars, panic>>
    /\ UNCHANGED <<faults, fileVars, fmtVars, auxVars>>

\* select: ctx.Done() is ready; return, whatever the queue holds
ConsumerCtxDone(r) ==
    /\ panic = "none"
    /\ cpc[r] = "select"
    /\ ctxDone
    /\ cpc' = [cpc EXCEPT ![r] = "drain"]
    /\ exitVia' = [exitVia EXCEPT ![r] = IF queue[r] = <<>> THEN "cancel"
                                         ELSE "cancelPending"]
    /\ UNCHANGED <<routeVars, sink, loggerVars, producerVars, closerVars,
                   historyVars, panic>>
    /\ UNCHANGED <<faults, fileVars, fmtVars, auxVars>>

\* DrainRecv emptying the channel without formatting and writing
DrainRecvDiscard(r) ==
    /\ panic = "none"
    /\ cpc[r] = "drain"
    /\ queue[r] /= <<>>
    /\ queue' = [queue EXCEPT ![r] = Tail(@)]
    /\ UNCHANGED <<threshold, flushable, chanClosed, closed, readers,
                   consumerVars, loggerVars, producerVars, closerVars,
                   historyVars, panic>>
    /\ UNCHANGED <<faults, fileVars, fmtVars, auxVars>>

\* drainQueue: one iteration of "for rec := range r.queue"
DrainRecv(r) ==
    /\ panic = "none"
    /\ cpc[r] = "drain"
    /\ queue[r] /= <<>>
    /\ queue' = [queue EXCEPT ![r] = Tail(@)]
    /\ Process(r, Head(queue[r]))
    /\ UNCHANGED <<threshold, flushable, chanClosed, closed, readers, cpc,
                   exitVia, loggerVars, producerVars, closerVars,
                   historyVars, panic>>
    /\ UNCHANGED <<faults, fileVars, fmtVars, auxVars>>

\* DrainFlush flushing before the range over the queue has ended
DrainFlushEarly(r) ==
    /\ panic = "none"
    /\ cpc[r] = "drain"
    /\ chanClosed[r]
    /\ sink' = IF flushable[r]
               THEN [sink EXCEPT ![r] = Append(@, FlushMark)]
               ELSE sink
    /\ cpc' = [cpc EXCEPT ![r] = IF queue[r] = <<>> THEN "flushed" ELSE "drain"]
    /\ UNCHANGED <<routeVars, exitVia, loggerVars, producerVars,
                   closerVars, historyVars, panic>>
    /\ UNCHANGED <<faults, fileVars, fmtVars, auxVars>>

\* drainQueue: the range ends on the closed, empty channel; Flush if the
\* writer is a FlushableWriter
DrainFlush(r) ==
    /\ panic = "none"
    /\ cpc[r] = "drain"
    /\ queue[r] = <<>>
    /\ chanClosed[r]
    /\ sink' = IF flushable[r]
               THEN [sink EXCEPT ![r] = Append(@, FlushMark)]
               ELSE sink
    /\ cpc' = [cpc EXCEPT ![r] = "flushed"]
    /\ UNCHANGED <<routeVars, exitVia, loggerVars, producerVars,
                   closerVars, historyVars, panic>>
    /\ UNCHANGED <<faults, fileVars, fmtVars, auxVars>>

(* ------------------ the consumer and the fields payload ----------------- *)

\* LogRecordRaw.Fields as LogN receives it: a sequence of JSON tokens.  No
\* bytes, an object, an object cut off after a comma, and an array
Payloads ==
    {<<>>,
     <<"{", "a", ":", "1", "}">>,
     <<"{", "a", ":", "1", ",">>,
     <<"[", "1", "]">>}

IsName(t) == t \in {"a", "b"}
IsScalar(t) == t \in {"1", "2"}

\* the members of an object between its braces: name : value, separated
\* by commas
RECURSIVE validMembers(_)
validMembers(m) ==
    \/ m = <<>>
    \/ /\ Len(m) >= 3
       /\ IsName(m[1]) /\ m[2] = ":" /\ IsScalar(m[3])
       /\ \/ Len(m) = 3
          \/ /\ Len(m) >= 7
             /\ m[4] = ","
             /\ validMembers(SubSeq(m, 5, Len(m)))

validObject(s) ==
    /\ Len(s) >= 2
    /\ s[1] = "{" /\ s[Len(s)] = "}"
    /\ validMembers(SubSeq(s, 2, Len(s) - 1))

RECURSIVE validElements(_)
validElements(m) ==
    \/ m = <<>>
    \/ /\ Len(m) >= 1
       /\ IsScalar(m[1])
       /\ \/ Len(m) = 1
          \/ /\ Len(m) >= 3
             /\ m[2] = ","
             /\ validElements(SubSeq(m, 3, Len(m)))

validArray(s) ==
    /\ Len(s) >= 2
    /\ s[1] = "[" /\ s[Len(s)] = "]"
    /\ validElements(SubSeq(s, 2, Len(s) - 1))

\* the scan of the whole input that json.Unmarshal makes before it decodes
checkValid(s) ==
    \/ validObject(s)
    \/ validArray(s)
    \/ Len(s) = 1 /\ IsScalar(s[1])

\* the key-value pairs of valid members
RECURSIVE Members(_)
Members(m) ==
    IF m = <<>> THEN {}
    ELSE {[k |-> m[1], v |-> m[3]]}
           \cup (IF Len(m) > 3 THEN Members(SubSeq(m, 5, Len(m))) ELSE {})

\* json.Unmarshal(data, &fields) with fields a nil map[string]interface{}:
\* a syntax error is found before anything is stored, and a value that is
\* not an object is an UnmarshalTypeError; the map stays nil in both cases
Unmarshal(s) ==
    IF ~checkValid(s) THEN [err |-> TRUE, fields |-> {}]
    ELSE IF validObject(s)
    THEN [err |-> FALSE, fields |-> Members(SubSeq(s, 2, Len(s) - 1))]
    ELSE [err |-> TRUE, fields |-> {}]

\* rawToRecord: "if len(rec.Fields) > 0 { _ = json.Unmarshal(...) }"
rawToRecord(rec) ==
    [id |-> rec.id, level |-> rec.level,
     fields |-> IF Len(rec.fields) > 0 THEN Unmarshal(rec.fields).fields
                ELSE {}]

\* the level of the calls that pass a payload: every route admits it
FieldsLevels == {Error}

\* LogN with the fields payload of the call in the record
LogNFields(p) ==
    /\ panic = "none"
    /\ ppc[p] = "idle"
    /\ emitted < MaxEmits
    /\ \E level \in FieldsLevels, payload \in Payloads :
         /\ emitted' = emitted + 1
         /\ IF ~AnyRouteShouldLog(level)
            THEN UNCHANGED <<ppc, pidx, prec, built>>
            ELSE LET rec == [id |-> built + 1, level |-> level,
                             fields |-> payload]
                     n == NextAdmitting(1, level) IN
                 /\ built' = built + 1
                 /\ ppc' = [ppc EXCEPT ![p] = "enqueue"]
                 /\ pidx' = [pidx EXCEPT ![p] = n]
                 /\ prec' = [prec EXCEPT ![p] = rec]
    /\ UNCHANGED <<routeVars, consumerVars, loggerVars, closerVars,
                   historyVars, panic>>
    /\ UNCHANGED <<faults, fileVars, fmtVars, auxVars>>

\* ProcessFields skipping the record when its payload does not parse
ProcessFieldsOrDrop(r, rec) ==
    sink' = IF Len(rec.fields) > 0 /\ Unmarshal(rec.fields).err
            THEN sink
            ELSE [sink EXCEPT ![r] = Append(@, rawToRecord(rec))]

\* "record := rawToRecord(rec)", then Format and Write of the record
ProcessFields(r, rec) ==
    sink' = [sink EXCEPT ![r] = Append(@, rawToRecord(rec))]

ConsumerRecvFields(r) ==
    /\ panic = "none"
    /\ cpc[r] = "select"
    /\ queue[r] /= <<>>
    /\ queue' = [queue EXCEPT ![r] = Tail(@)]
    /\ ProcessFields(r, Head(queue[r]))
    /\ UNCHANGED <<threshold, flushable, chanClosed, closed, readers, cpc,
                   exitVia, loggerVars, producerVars, closerVars,
                   historyVars, panic>>
    /\ UNCHANGED <<faults, fileVars, fmtVars, auxVars>>

DrainRecvFields(r) ==
    /\ panic = "none"
    /\ cpc[r] = "drain"
    /\ queue[r] /= <<>>
    /\ queue' = [queue EXCEPT ![r] = Tail(@)]
    /\ ProcessFields(r, Head(queue[r]))
    /\ UNCHANGED <<threshold, flushable, chanClosed, closed, readers, cpc,
                   exitVia, loggerVars, producerVars, closerVars,
                   historyVars, panic>>
    /\ UNCHANGED <<faults, fileVars, fmtVars, auxVars>>

(* ------------- the consumer with a formatter and a writer that fail ------------- *)

\* the routes built from a formatter and a writer that can return an error;
\* the other routes format and write without error
FaultyRoutes == {1}

\* the results Format and Write can have for one record of route r
Outcomes(r) == IF r \in FaultyRoutes THEN {"ok", "format", "write"} ELSE {"ok"}

\* ProcessFaulty letting the error out of the consumer goroutine
ProcessFaultyPropagates(r, rec) ==
    \E outcome \in Outcomes(r) :
        /\ sink' = IF outcome = "format" THEN sink
                   ELSE [sink EXCEPT ![r] = Append(@, rec)]
        /\ faults' = IF outcome = "ok" THEN faults
                     ELSE [faults EXCEPT ![r] = @ \cup {[rec |-> rec, kind |-> outcome]}]
        /\ panic' = IF outcome = "ok" THEN panic ELSE "consumer error"

\* rawToRecord, Format and Write with any FormatProcessor and WriteProcessor:
\* "if data, err := Format(record); err == nil { _ = Writer.Write(data) }"
ProcessFaulty(r, rec) ==
    \E outcome \in Outcomes(r) :
        /\ sink' = IF outcome = "format" THEN sink
                   ELSE [sink EXCEPT ![r] = Append(@, rec)]
        /\ faults' = IF outcome = "ok" THEN faults
                     ELSE [faults EXCEPT ![r] = @ \cup {[rec |-> rec, kind |-> outcome]}]
        /\ UNCHANGED panic

ConsumerRecvFaulty(r) ==
    /\ panic = "none"
    /\ cpc[r] = "select"
    /\ queue[r] /= <<>>
    /\ queue' = [queue EXCEPT ![r] = Tail(@)]
    /\ ProcessFaulty(r, Head(queue[r]))
    /\ UNCHANGED <<threshold, flushable, chanClosed, closed, readers, cpc,
                   exitVia, loggerVars, producerVars, closerVars,
                   historyVars>>
    /\ UNCHANGED <<fileVars, fmtVars, auxVars>>

DrainRecvFaulty(r) ==
    /\ panic = "none"
    /\ cpc[r] = "drain"
    /\ queue[r] /= <<>>
    /\ queue' = [queue EXCEPT ![r] = Tail(@)]
    /\ ProcessFaulty(r, Head(queue[r]))
    /\ UNCHANGED <<threshold, flushable, chanClosed, closed, readers, cpc,
                   exitVia, loggerVars, producerVars, closerVars,
                   historyVars>>
    /\ UNCHANGED <<fileVars, fmtVars, auxVars>>

\* "_ = f.Flush()": the Flush may return an error
DrainFlushFaulty(r) ==
    /\ panic = "none"
    /\ cpc[r] = "drain"
    /\ queue[r] = <<>>
    /\ chanClosed[r]
    /\ IF flushable[r]
       THEN /\ sink' = [sink EXCEPT ![r] = Append(@, FlushMark)]
            /\ \E failed \in {FALSE, (r \in FaultyRoutes)} :
                 faults' = IF failed
                           THEN [faults EXCEPT ![r] = @ \cup {[rec |-> FlushMark, kind |-> "flush"]}]
                           ELSE faults
       ELSE UNCHANGED <<sink, faults>>
    /\ cpc' = [cpc EXCEPT ![r] = "flushed"]
    /\ UNCHANGED <<routeVars, exitVia, loggerVars, producerVars,
                   closerVars, historyVars, panic>>
    /\ UNCHANGED <<fileVars, fmtVars, auxVars>>

\* the deferred wg.Done()
ConsumerDone(r) ==
    /\ panic = "none"
    /\ cpc[r] = "flushed"
    /\ cpc' = [cpc EXCEPT ![r] = "done"]
    /\ wg' = wg - 1
    /\ UNCHANGED <<routeVars, sink, exitVia, ctxDone,
                   producerVars, closerVars, historyVars, panic>>
    /\ UNCHANGED <<faults, fileVars, fmtVars, auxVars>>

(* ---------------------------- Logger.Close ---------------------------- *)

\* Logger.Close is called: the loop reaches r.Close() of the first route,
\* which calls mu.Lock()
CloseStart(k) ==
    /\ panic = "none"
    /\ kpc[k] = "idle"
    /\ kpc' = [kpc EXCEPT ![k] = "lock"]
    /\ kidx' = [kidx EXCEPT ![k] = 1]
    /\ UNCHANGED <<routeVars, consumerVars, loggerVars, producerVars,
                   returnedAt, historyVars, panic>>
    /\ UNCHANGED <<faults, fileVars, fmtVars, auxVars>>

\* RouteClose without "if r.closed { return }"
RouteCloseNoCheck(k) ==
    LET r == kidx[k] IN
    /\ kpc[k] = "lock"
    /\ panic = "none"
    /\ readers[r] = 0
    /\ IF chanClosed[r]
       THEN /\ panic' = "close of closed channel"
            /\ closeCount' = [closeCount EXCEPT ![r] = @ + 1]
            /\ UNCHANGED <<chanClosed, closed>>
       ELSE /\ chanClosed' = [chanClosed EXCEPT ![r] = TRUE]
            /\ closed' = [closed EXCEPT ![r] = TRUE]
            /\ closeCount' = [closeCount EXCEPT ![r] = @ + 1]
            /\ UNCHANGED panic
    /\ IF r < NumRoutes
       THEN /\ kidx' = [kidx EXCEPT ![k] = r + 1]
            /\ UNCHANGED kpc
       ELSE /\ kidx' = [kidx EXCEPT ![k] = 0]
            /\ kpc' = [kpc EXCEPT ![k] = "cancel"]
    /\ UNCHANGED <<threshold, flushable, queue, readers, consumerVars,
                   loggerVars, producerVars, returnedAt, enq, accepted, rejected>>
    /\ UNCHANGED <<faults, fileVars, fmtVars, auxVars>>

\* RouteProcessor.Close under the write lock
RouteClose(k) ==
    LET r == kidx[k] IN
    /\ kpc[k] = "lock"
    /\ panic = "none"
    /\ readers[r] = 0
    /\ IF closed[r]
       THEN UNCHANGED <<chanClosed, closed, closeCount, panic>>
       ELSE IF chanClosed[r]
       THEN /\ panic' = "close of closed channel"
            /\ closeCount' = [closeCount EXCEPT ![r] = @ + 1]
            /\ UNCHANGED <<chanClosed, closed>>
       ELSE /\ chanClosed' = [chanClosed EXCEPT ![r] = TRUE]
            /\ closed' = [closed EXCEPT ![r] = TRUE]
            /\ closeCount' = [closeCount EXCEPT ![r] = @ + 1]
            /\ UNCHANGED panic
    /\ IF r < NumRoutes
       THEN /\ kidx' = [kidx EXCEPT ![k] = r + 1]
            /\ UNCHANGED kpc
       ELSE /\ kidx' = [kidx EXCEPT ![k] = 0]
            /\ kpc' = [kpc EXCEPT ![k] = "cancel"]
    /\ UNCHANGED <<threshold, flushable, queue, readers, consumerVars,
                   loggerVars, producerVars, returnedAt, enq, accepted, rejected>>
    /\ UNCHANGED <<faults, fileVars, fmtVars, auxVars>>

\* l.cancel()
Cancel(k) ==
    /\ panic = "none"
    /\ kpc[k] = "cancel"
    /\ ctxDone' = TRUE
    /\ kpc' = [kpc EXCEPT ![k] = "wait"]
    /\ UNCHANGED <<routeVars, consumerVars, wg, producerVars, kidx,
                   returnedAt, historyVars, panic>>
    /\ UNCHANGED <<faults, fileVars, fmtVars, auxVars>>

\* WaitReturn without the wait: Logger.Close returns right after cancel
WaitReturnNoJoin(k) ==
    /\ panic = "none"
    /\ kpc[k] = "wait"
    /\ kpc' = [kpc EXCEPT ![k] = "returned"]
    /\ returnedAt' = [returnedAt EXCEPT ![k] = sink]
    /\ UNCHANGED <<routeVars, consumerVars, loggerVars, producerVars, kidx,
                   historyVars, panic>>
    /\ UNCHANGED <<faults, fileVars, fmtVars, auxVars>>

\* l.wg.Wait() returns, and with it Logger.Close
WaitReturn(k) ==
    /\ panic = "none"
    /\ kpc[k] = "wait"
    /\ wg = 0
    /\ kpc' = [kpc EXCEPT ![k] = "returned"]
    /\ returnedAt' = [returnedAt EXCEPT ![k] = sink]
    /\ UNCHANGED <<routeVars, consumerVars, loggerVars, producerVars, kidx,
                   historyVars, panic>>
    /\ UNCHANGED <<faults, fileVars, fmtVars, auxVars>>

(* --------------------------- specifications --------------------------- *)

Consumer ==
    \E r \in Routes :
        \/ ConsumerRecv(r)
        \/ ConsumerChanClosed(r)
        \/ ConsumerCtxDone(r)
        \/ DrainRecv(r)
        \/ DrainFlush(r)
        \/ ConsumerDone(r)

LoggerClose ==
    \E k \in Closers :
        \/ CloseStart(k)
        \/ RouteClose(k)
        \/ Cancel(k)
        \/ WaitReturn(k)

Next ==
    \/ \E p \in Producers : LogN(p)
    \/ \E p \in Producers : EnqueueRLock(p)
    \/ \E p \in Producers : EnqueueSend(p)
    \/ Consumer
    \/ LoggerClose

Spec == Init /\ [][Next]_vars

\* the same program with two goroutines racing in Logger.Close
SpecRace == InitRace /\ [][Next]_vars

\* the program with the Enqueue that unlocks before it sends
NextSnapshot ==
    \/ \E p \in Producers : LogN(p)
    \/ \E p \in Producers : EnqueueSnapshot(p)
    \/ \E p \in Producers : EnqueueSendUnlocked(p)
    \/ Consumer
    \/ LoggerClose

SpecSnapshot == Init /\ [][NextSnapshot]_vars

\* the program with the non-blocking Enqueue, emitting through Logger.log
NextNonBlocking ==
    \/ \E p \in Producers : LoggerLog(p)
    \/ \E p \in Producers : EnqueueNonBlocking(p)
    \/ Consumer
    \/ LoggerClose

SpecNonBlocking == Init /\ [][NextNonBlocking]_vars

\* one goroutine emits and one closes the logger
InitOneProducer ==
    /\ InitLogger
    /\ faults = [r \in Routes |-> {}]
    /\ NoFileWriter
    /\ NoFormatter
    /\ NoAux
    /\ ppc = [p \in Producers |-> IF p = "p1" THEN "idle" ELSE "absent"]
    /\ kpc = [k \in Closers |-> IF k = "c1" THEN "idle" ELSE "absent"]

ConsumerFaulty ==
    \E r \in Routes :
        \/ ConsumerRecvFaulty(r)
        \/ ConsumerChanClosed(r)
        \/ ConsumerCtxDone(r)
        \/ DrainRecvFaulty(r)
        \/ DrainFlushFaulty(r)
        \/ ConsumerDone(r)

\* the program with formatters and writers that may return an error
NextFaulty ==
    \/ \E p \in Producers : LogN(p)
    \/ \E p \in Producers : EnqueueRLock(p)
    \/ \E p \in Producers : EnqueueSend(p)
    \/ ConsumerFaulty
    \/ LoggerClose

SpecFaulty == InitOneProducer /\ [][NextFaulty]_vars

ConsumerFields ==
    \E r \in Routes :
        \/ ConsumerRecvFields(r)
        \/ ConsumerChanClosed(r)
        \/ ConsumerCtxDone(r)
        \/ DrainRecvFields(r)
        \/ DrainFlush(r)
        \/ ConsumerDone(r)

\* the program with producers that pass a fields payload
NextFields ==
    \/ \E p \in Producers : LogNFields(p)
    \/ \E p \in Producers : EnqueueRLock(p)
    \/ \E p \in Producers : EnqueueSend(p)
    \/ ConsumerFields
    \/ LoggerClose

SpecFields == InitOneProducer /\ [][NextFields]_vars

Compressor ==
    \E g \in 1..MaxCalls : GzOpen(g) \/ GzCompress(g) \/ GzRemove(g)

FileWriterCalls ==
    \/ \E len \in WriteLens : WriteCall(len)
    \/ RotateRename
    \/ RotateOpen
    \/ RotateCleanup
    \/ WriteAppend
    \/ Flush
    \/ Close

\* the file sink without a compressor, the goroutine that calls it and
\* the clock
NextFile ==
    \/ Tick
    \/ FileWriterCalls

SpecFile == InitFile /\ [][NextFile]_vars

\* the file sink in a directory that holds other files
InitDir == NewFileWriterIn(PlainConfigs, InitialSizes, Directories)

SpecDir == InitDir /\ [][NextFile]_vars

\* the file sink with gzip, written to by a route's consumer, and its
\* compression goroutines
NextGzip ==
    \/ Tick
    \/ \E len \in GzipWriteLens : WriteCall(len)
    \/ RotateRename
    \/ RotateOpen
    \/ RotateCleanup
    \/ WriteAppend
    \/ Compressor

SpecGzip == InitGzip /\ [][NextGzip]_vars

(* ----------------------------- formatters ----------------------------- *)

\* the largest MaxDepth the formatters are constructed with
DepthLimit == 3
\* Format calls on one record
MaxFormats == 2

\* a dynamic value: its Go type and, by type, the integer, the index of the
\* string or the address of the map, slice, struct or channel it refers to
Val(k, x) == [k |-> k, x |-> x]
NilVal == Val("nil", 0)
IntVal(n) == Val("int", n)
StrVal(i) == Val("string", i)
DurVal == Val("duration", 5)
TimeVal == Val("time", 0)
ErrVal == Val("error", 0)
StringerVal == Val("stringer", 0)
MapAny(a) == Val("map[string]any", a)
SliceAny(a) == Val("[]any", a)
RMap(a) == Val("map[string]int", a)
KMap(a) == Val("map[int]any", a)
RSlice(a) == Val("[]int", a)
Ptr(a) == Val("*struct", a)
Struct(a) == Val("struct", a)
Chan(a) == Val("chan", a)

\* the strings of the model: string values by index, and what Error(),
\* String(), Duration.String() and Time.Format(RFC3339Nano) return
Strings == <<"deep", "v">>
ErrorText == "boom"
StringerText == "shown"
DurText == "5s"
TimeText == "2025-08-14T15:30:00Z"

\* the keys of the model in the order sort.Strings puts them
KeyOrder == <<"A", "B", "O", "a", "b", "c", "level1", "level2", "level3",
              "m", "p", "q", "self", "x", "z">>
Rank(k) == CHOOSE i \in 1..Len(KeyOrder) : KeyOrder[i] = k

\* a map entry, a slice element, and a struct field with its json tag:
\* tagName is parts[0] of the tag, omit is the omitempty option
Entry(key, val) ==
    [key |-> key, val |-> val, exported |-> TRUE, tagName |-> "", omit |-> FALSE]
Elem(val) == Entry("", val)
Field(name, exported, tagName, omit, val) ==
    [key |-> name, val |-> val, exported |-> exported, tagName |-> tagName,
     omit |-> omit]

\* reflect.Value.IsZero of a field value
IsZero(v) ==
    \/ v.k \in {"nil", "int", "string"} /\ v.x = 0
    \/ v.k \notin {"nil", "int", "string", "struct", "duration", "time",
                   "error", "stringer"} /\ v.x = 0

\* the record fields and the heaps Format is called with
NestedMaps ==
    [fields |-> <<Entry("c", IntVal(3)), Entry("a", MapAny(1)), Entry("b", IntVal(2))>>,
     heap |-> <<  <<Entry("z", IntVal(1)), Entry("m", IntVal(2))>>  >>]
CyclicMap ==
    [fields |-> <<Entry("x", MapAny(1))>>,
     heap |-> <<  <<Entry("self", MapAny(1))>>  >>]
DeepMaps ==
    [fields |-> <<Entry("level1", MapAny(1))>>,
     heap |-> <<  <<Entry("level2", MapAny(2))>>,
                  <<Entry("level3", StrVal(1))>>  >>]
Diamond ==
    [fields |-> <<Entry("q", SliceAny(2)), Entry("p", MapAny(1))>>,
     heap |-> <<  <<Entry("a", IntVal(1))>>,
                  <<Elem(MapAny(1)), Elem(MapAny(1))>>  >>]
CyclicSlice ==
    [fields |-> <<Entry("x", SliceAny(1))>>,
     heap |-> <<  <<Elem(IntVal(1)), Elem(SliceAny(1))>>  >>]
MutualCycle ==
    [fields |-> <<Entry("x", MapAny(1))>>,
     heap |-> <<  <<Entry("a", SliceAny(2))>>,
                  <<Elem(MapAny(1))>>  >>]
TaggedStruct ==
    [fields |-> <<Entry("x", Struct(1))>>,
     heap |-> <<  <<Field("B", TRUE, "", FALSE, IntVal(2)),
                    Field("A", TRUE, "z", FALSE, IntVal(1)),
                    Field("S", TRUE, "-", FALSE, IntVal(3)),
                    Field("O", TRUE, "", TRUE, IntVal(0)),
                    Field("u", FALSE, "", FALSE, IntVal(4))>>  >>]
PointerDiamond ==
    [fields |-> <<Entry("p", Ptr(1)), Entry("q", Ptr(1))>>,
     heap |-> <<  <<Field("A", TRUE, "", FALSE, IntVal(1))>>  >>]
CyclicPointer ==
    [fields |-> <<Entry("x", Ptr(1))>>,
     heap |-> <<  <<Field("A", TRUE, "", FALSE, Ptr(1))>>  >>]
TypedContainers ==
    [fields |-> <<Entry("m", RMap(1)), Entry("x", RSlice(2))>>,
     heap |-> <<  <<Entry("b", IntVal(2)), Entry("a", IntVal(1))>>,
                  <<Elem(IntVal(1)), Elem(IntVal(2))>>  >>]
Unsupported ==
    [fields |-> <<Entry("q", KMap(1)), Entry("c", Chan(2))>>,
     heap |-> <<  <<Entry("a", IntVal(1))>>, <<>>  >>]
Leaves ==
    [fields |-> <<Entry("x", StrVal(1)), Entry("a", ErrVal), Entry("b", TimeVal),
                  Entry("c", StringerVal), Entry("m", DurVal), Entry("p", NilVal)>>,
     heap |-> <<>>]

Records == {NestedMaps, CyclicMap, DeepMaps, Diamond, CyclicSlice, MutualCycle,
            TaggedStruct, PointerDiamond, CyclicPointer, TypedContainers,
            Unsupported, Leaves}

\* what Format writes to its buffer: punctuation, a key, a string written
\* through strconv.Quote, and text written as it is
Punct(s) == [t |-> "punct", s |-> s]
\* a key of Fields, of a map or of a struct
KeyTok(k) == [t |-> "key", s |-> k]
\* a key as the text formatter writes it: colorizeKey(k), without quotes
NameTok(k) == [t |-> "name", s |-> k]
StrTok(s) == [t |-> "string", s |-> s]
RawTok(s) == [t |-> "raw", s |-> s]

\* the calls of one Format that are still to run, innermost first: a call
\* of writeJSON or renderText, a call of writeByReflect, a write to the
\* buffer, and the deferred release, putKeysSlice, putVisited and putBuf
Item(op, v, d, tok, ks) == [op |-> op, v |-> v, d |-> d, tok |-> tok, ks |-> ks]
Call(v, d) == Item("write", v, d, Punct(""), <<>>)
Reflect(v, d) == Item("writeByReflect", v, d, Punct(""), <<>>)
Write(tok) == Item("buffer", NilVal, 0, tok, <<>>)
Release(a) == Item("release", Val("release", a), 0, Punct(""), <<>>)
PutKeys(ks) == Item("putKeysSlice", NilVal, 0, Punct(""), ks)
Return == Item("return", NilVal, 0, Punct(""), <<>>)
PutVisited == Item("putVisited", NilVal, 0, Punct(""), <<>>)
PutBuf == Item("putBuf", NilVal, 0, Punct(""), <<>>)
Deferred == {"release", "putVisited", "putBuf"}

\* what one call does before its first nested call: the tokens it writes,
\* the calls it makes after them, the identity it marks (0: none), and
\* whether it panics
Result(toks, items, mark, panics) ==
    [toks |-> toks, items |-> items, mark |-> mark, panics |-> panics]
Token(tok) == Result(<<tok>>, <<>>, 0, FALSE)

Flatten(seqs) ==
    LET RECURSIVE flat(_)
        flat(i) == IF i > Len(seqs) THEN <<>> ELSE seqs[i] \o flat(i + 1)
    IN flat(1)

\* the orders in which a range statement may visit the entries of a map
Perms(entries) ==
    LET n == Len(entries) IN
    {[i \in 1..n |-> entries[p[i]]] :
        p \in {q \in [1..n -> 1..n] : \A i, j \in 1..n : i /= j => q[i] /= q[j]}}

\* keys = append(keys, k) over a range, then sort.Strings(keys)
KeysOf(entries) == [i \in 1..Len(entries) |-> entries[i].key]
SortStrings(keys) == SelectSeq(KeyOrder, LAMBDA k : k \in SeqSet(keys))
\* sort.Strings left out: the keys in the order the range gave them
IterationOrder(keys) == keys

\* m[k]
Lookup(entries, k) == (CHOOSE e \in SeqSet(entries) : e.key = k).val

\* markAndCheck: the identity of a map, slice, pointer or channel is its
\* rv.Pointer(); a struct that came out of Interface() is not addressable
\* and has none
Identity(v) ==
    IF v.k \in {"map[string]any", "[]any", "map[string]int", "map[int]any",
                "[]int", "*struct", "chan"}
    THEN v.x ELSE 0
\* markAndCheck never finding the identity in visited
SeenNever(v) == FALSE
Seen(v) == Identity(v) /= 0 /\ Identity(v) \in visited

\* "k":v,"k":v,... for the keys in the given order
JSONMembers(keys, entries, d) ==
    Flatten([i \in 1..Len(keys) |->
        (IF i > 1 THEN <<Write(Punct(","))>> ELSE <<>>)
        \o <<Write(KeyTok(keys[i])), Write(Punct(":")),
             Call(Lookup(entries, keys[i]), d)>>])

\* v,v,... for the elements of a slice
JSONElements(entries, d) ==
    Flatten([i \in 1..Len(entries) |->
        (IF i > 1 THEN <<Write(Punct(","))>> ELSE <<>>)
        \o <<Call(entries[i].val, d)>>])

\* writeMapStringAny
writeMapStringAny(v, d) ==
    IF Seen(v) THEN Token(StrTok("<cycle>"))
    ELSE LET keys == SortStrings(KeysOf(heap[v.x])) IN
         Result(<<Punct("{")>>,
                (IF Len(heap[v.x]) > 0
                 THEN JSONMembers(keys, heap[v.x], d + 1) \o <<PutKeys(keys)>>
                 ELSE <<>>)
                \o <<Write(Punct("}")), Release(v.x)>>,
                v.x, FALSE)

\* writeSliceAny
writeSliceAny(v, d) ==
    IF Seen(v) THEN Token(StrTok("<cycle>"))
    ELSE Result(<<Punct("[")>>,
                JSONElements(heap[v.x], d + 1) \o <<Write(Punct("]")), Release(v.x)>>,
                v.x, FALSE)

\* getStructFields: the exported fields whose tag name is not "-", under
\* the tag name when there is one, sorted by key
getStructFields(entries) ==
    LET kept == SelectSeq(entries, LAMBDA e : e.exported /\ e.tagName /= "-")
        keyed == [i \in 1..Len(kept) |->
                    [kept[i] EXCEPT !.key = IF kept[i].tagName /= ""
                                            THEN kept[i].tagName ELSE @]]
    IN [i \in 1..Len(keyed) |->
          CHOOSE e \in SeqSet(keyed) :
              Cardinality({o \in SeqSet(keyed) : Rank(o.key) < Rank(e.key)}) = i - 1]

\* the struct case of writeByReflect: the fields without the omitted ones
\* up to a closing brace, then every field again up to a second one
JSONStruct(entries, d) ==
    LET all == getStructFields(entries)
        shown == SelectSeq(all, LAMBDA e : ~(e.omit /\ IsZero(e.val)))
    IN Result(<<Punct("{")>>,
              JSONMembers(KeysOf(shown), shown, d + 1) \o <<Write(Punct("}"))>>
              \o JSONMembers(KeysOf(all), all, d + 1) \o <<Write(Punct("}"))>>,
              0, FALSE)

\* the struct case rendering the shown fields once
JSONStructOnce(entries, d) ==
    LET all == getStructFields(entries)
        shown == SelectSeq(all, LAMBDA e : ~(e.omit /\ IsZero(e.val)))
    IN Result(<<Punct("{")>>,
              JSONMembers(KeysOf(shown), shown, d + 1) \o <<Write(Punct("}"))>>,
              0, FALSE)

\* writeByReflect of loggo/core/formatter/json.go
writeByReflect(v, d) ==
    IF Seen(v) THEN Token(StrTok("<cycle>"))
    ELSE LET id == Identity(v)
             release == IF id /= 0 THEN <<Release(id)>> ELSE <<>>
         IN
         CASE v.k = "*struct" ->
                IF v.x = 0 THEN Token(RawTok("null"))
                ELSE Result(<<>>, <<Reflect(Struct(v.x), d + 1)>> \o release, id, FALSE)
           [] v.k = "struct" -> JSONStruct(heap[v.x], d)
           [] v.k = "map[int]any" ->
                Result(<<StrTok("<unsupported_map_key>")>>, release, id, FALSE)
           [] v.k = "map[string]int" ->
                \* ss := getKeysSlice(len(keys)) has length 0: ss[0] = ...
                \* is out of range as soon as the map has a key
                IF Len(heap[v.x]) > 0
                THEN Result(<<>>, release, id, TRUE)
                ELSE Result(<<Punct("{"), Punct("}")>>, <<PutKeys(<<>>)>> \o release,
                            id, FALSE)
           [] v.k = "[]int" ->
                Result(<<Punct("[")>>,
                       JSONElements(heap[v.x], d + 1) \o <<Write(Punct("]"))>> \o release,
                       id, FALSE)
           [] OTHER ->
                Result(<<StrTok("<unsupported:chan>")>>, release, id, FALSE)

\* what writeJSON writes for a value that is not a container
JSONScalar(v) ==
    CASE v.k = "duration" -> StrTok(DurText)
      [] v.k = "nil" -> RawTok("null")
      [] v.k = "string" -> StrTok(IF v.x = 0 THEN "" ELSE Strings[v.x])
      [] v.k = "int" -> RawTok(ToString(v.x))
      [] v.k = "time" -> StrTok(TimeText)
      [] v.k = "error" -> StrTok(ErrorText)
      [] v.k = "stringer" -> StrTok(StringerText)

Scalars == {"duration", "nil", "string", "int", "time", "error", "stringer"}

\* writeJSON counting the field key as the first level
writeJSONFromOne(v, d) ==
    IF d + 1 >= maxDepth THEN Token(StrTok("<max_depth>"))
    ELSE IF v.k \in Scalars THEN Token(JSONScalar(v))
    ELSE IF v.k = "map[string]any" THEN writeMapStringAny(v, d)
    ELSE IF v.k = "[]any" THEN writeSliceAny(v, d)
    ELSE writeByReflect(v, d)

\* writeJSON of loggo/core/formatter/json.go
writeJSON(v, d) ==
    IF d >= maxDepth THEN Token(StrTok("<max_depth>"))
    ELSE IF v.k \in Scalars THEN Token(JSONScalar(v))
    ELSE IF v.k = "map[string]any" THEN writeMapStringAny(v, d)
    ELSE IF v.k = "[]any" THEN writeSliceAny(v, d)
    ELSE writeByReflect(v, d)

\* k: v, k: v, ... as renderStruct and renderMap write it
TextMembers(keys, entries, d) ==
    Flatten([i \in 1..Len(keys) |->
        (IF i > 1 THEN <<Write(Punct(", "))>> ELSE <<>>)
        \o <<Write(NameTok(keys[i])), Write(Punct(": ")),
             Call(Lookup(entries, keys[i]), d)>>])

TextElements(entries, d) ==
    Flatten([i \in 1..Len(entries) |->
        (IF i > 1 THEN <<Write(Punct(", "))>> ELSE <<>>)
        \o <<Call(entries[i].val, d)>>])

\* a struct none of whose fields is exported, as renderStruct finds
\* time.Time and the struct behind errors.New
Unexported == Val("unexported", 0)

\* renderByReflect of loggo/formatter/text.go with renderPtr, renderStruct,
\* renderMap and renderSlice
renderByReflect(v, d) ==
    IF Seen(v) THEN Token(RawTok("<cycle>"))
    ELSE LET id == Identity(v)
             release == IF id /= 0 THEN <<Release(id)>> ELSE <<>>
         IN
         CASE v.k = "*struct" ->
                IF v.x = 0 THEN Token(RawTok("null"))
                ELSE Result(<<>>, <<Call(Struct(v.x), d + 1)>> \o release, id, FALSE)
           [] v.k = "error" ->
                \* errors.New returns a pointer to a struct
                Result(<<>>, <<Call(Unexported, d + 1)>>, 0, FALSE)
           [] v.k \in {"time", "stringer", "unexported"} ->
                Result(<<Punct("{"), Punct("}")>>, <<>>, 0, FALSE)
           [] v.k = "struct" ->
                LET all == getStructFields(heap[v.x])
                    shown == SelectSeq(all, LAMBDA e : ~(e.omit /\ IsZero(e.val)))
                IN Result(<<Punct("{")>>,
                          TextMembers(KeysOf(shown), shown, d + 1)
                          \o <<Write(Punct("}"))>>,
                          0, FALSE)
           [] v.k = "map[int]any" ->
                Result(<<RawTok("<unsupported_map_key>")>>, release, id, FALSE)
           [] v.k \in {"map[string]any", "map[string]int"} ->
                Result(<<Punct("{")>>,
                       TextMembers(SortStrings(KeysOf(heap[v.x])), heap[v.x], d + 1)
                       \o <<Write(Punct("}"))>> \o release,
                       id, FALSE)
           [] v.k \in {"[]any", "[]int"} ->
                Result(<<Punct("[")>>,
                       TextElements(heap[v.x], d + 1) \o <<Write(Punct("]"))>>
                       \o release,
                       id, FALSE)
           [] OTHER ->
                \* fmt.Sprint of a channel: its address
                Result(<<RawTok("0xc000010000")>>, release, id, FALSE)

\* renderText of loggo/formatter/text.go
renderText(v, d) ==
    IF d >= maxDepth THEN Token(RawTok("<max_depth>"))
    ELSE CASE v.k = "duration" -> Token(RawTok(DurText))
           [] v.k = "nil" -> Token(RawTok("null"))
           [] v.k = "string" -> Token(StrTok(IF v.x = 0 THEN "" ELSE Strings[v.x]))
           [] v.k = "int" -> Token(RawTok(ToString(v.x)))
           [] OTHER -> renderByReflect(v, d)

\* writeByReflect of unnamed/part_012 with writeStructByReflect, writeMap
\* and writeSliceOrArrayByReflect: the pointer, the map and the slice are
\* marked by writeByReflect and checked a second time
writeByReflect012(v, d) ==
    IF Seen(v) THEN Token(StrTok("<cycle>"))
    ELSE LET id == Identity(v)
             release == IF id /= 0 THEN <<Release(id)>> ELSE <<>>
             seenAgain == id /= 0 /\ id \in visited \cup {id}
         IN
         CASE v.k = "*struct" ->
                IF v.x = 0 THEN Token(RawTok("null"))
                ELSE IF seenAgain
                THEN Result(<<StrTok("<cycle>")>>, release, id, FALSE)
                ELSE Result(<<>>, <<Call(Struct(v.x), d + 1)>> \o release, id, FALSE)
           [] v.k = "struct" -> JSONStructOnce(heap[v.x], d)
           [] v.k \in {"map[int]any", "map[string]int"} ->
                IF seenAgain
                THEN Result(<<StrTok("<cycle>")>>, release, id, FALSE)
                ELSE IF v.k = "map[int]any"
                THEN Result(<<StrTok("<unsupported_map_key>")>>, release, id, FALSE)
                ELSE Result(<<Punct("{")>>,
                            JSONMembers(SortStrings(KeysOf(heap[v.x])), heap[v.x], d + 1)
                            \o <<Write(Punct("}"))>> \o release,
                            id, FALSE)
           [] v.k = "[]int" ->
                IF seenAgain
                THEN Result(<<StrTok("<cycle>")>>, release, id, FALSE)
                ELSE Result(<<Punct("[")>>,
                            JSONElements(heap[v.x], d + 1) \o <<Write(Punct("]"))>>
                            \o release,
                            id, FALSE)
           [] OTHER ->
                Result(<<StrTok("<unsupported:chan>")>>, release, id, FALSE)

\* writeMapStringAny and writeSliceAny of unnamed/part_012: sortedKeys
\* instead of the pooled slice
writeContainer012(v, d) ==
    IF Seen(v) THEN Token(StrTok("<cycle>"))
    ELSE IF v.k = "map[string]any"
    THEN Result(<<Punct("{")>>,
                JSONMembers(SortStrings(KeysOf(heap[v.x])), heap[v.x], d + 1)
                \o <<Write(Punct("}")), Release(v.x)>>,
                v.x, FALSE)
    ELSE Result(<<Punct("[")>>,
                JSONElements(heap[v.x], d + 1) \o <<Write(Punct("]")), Release(v.x)>>,
                v.x, FALSE)

\* writeJSON of unnamed/part_012
writeJSON012(v, d) ==
    IF d >= maxDepth THEN Token(StrTok("<max_depth>"))
    ELSE IF v.k \in Scalars THEN Token(JSONScalar(v))
    ELSE IF v.k \in {"map[string]any", "[]any"} THEN writeContainer012(v, d)
    ELSE writeByReflect012(v, d)

\* writeValue of core/formatter/json.go
writeValue(v) ==
    CASE v.k = "string" -> StrTok(IF v.x = 0 THEN "" ELSE Strings[v.x])
      [] v.k = "int" -> RawTok(ToString(v.x))
      [] OTHER -> StrTok("unsupported_type")

\* the call at the top of the stack, by the formatter that runs
Dispatch(item) ==
    CASE formatter = "json" ->
            IF item.op = "write" THEN writeJSON(item.v, item.d)
            ELSE writeByReflect(item.v, item.d)
      [] formatter = "text" -> renderText(item.v, item.d)
      [] formatter = "json012" -> writeJSON012(item.v, item.d)

\* {"level":"INFO","ts":"...","msg":"hello"
JSONHeader ==
    <<Punct("{"), StrTok("level"), Punct(":"), StrTok("INFO"),
      Punct(","), StrTok("ts"), Punct(":"), StrTok(TimeText),
      Punct(","), StrTok("msg"), Punct(":"), StrTok("hello")>>

\* [2025-08-14 15:30:00.000] INFO    -> hello
TextHeader ==
    <<Punct("["), RawTok("2025-08-14 15:30:00.000"), Punct("] "),
      RawTok("INFO   "), Punct(" "), Punct("-> "), RawTok("hello")>>

\* ,"k":v for the fields in the given order, each value at depth 0
JSONFields(keys) ==
    Flatten([i \in 1..Len(keys) |->
        <<Write(Punct(",")), Write(KeyTok(keys[i])), Write(Punct(":")),
          Call(Lookup(fields, keys[i]), 0)>>])

TextFields(keys) ==
    Flatten([i \in 1..Len(keys) |->
        <<Write(Punct(" ")), Write(NameTok(keys[i])), Write(Punct("=")),
          Call(Lookup(fields, keys[i]), 0)>>])

\* sync.Pool.Get: a pooled object when there is one, New otherwise
PoolGet(pool, new) == IF pool = <<>> THEN new ELSE Head(pool)
PoolRest(pool) == IF pool = <<>> THEN pool ELSE Tail(pool)

\* what putBuf, putKeysSlice and putVisited leave in the object they pool:
\* b.Reset(), s[i] = "" for every key, delete(m, k) for every identity
putBuf(bytes) == <<>>
putKeysSliceKeeping(ks) == ks
putKeysSlice(ks) == [i \in 1..Len(ks) |-> ""]
putVisited(ids) == {}

CanFormat == fpc \in {"idle", "done"} /\ formats < MaxFormats

\* Format of loggo/core/formatter/json.go up to its first writeJSON
JsonFormat ==
    /\ formatter = "json"
    /\ CanFormat
    /\ formats' = formats + 1
    /\ fpc' = "running"
    /\ prevOut' = out
    /\ rendered' = {}
    /\ buf' = JSONHeader
    /\ bufPool' = PoolRest(bufPool)
    /\ visited' = PoolGet(visitedPool, {})
    /\ visitedPool' = PoolRest(visitedPool)
    /\ strSlicePool' = IF Len(fields) > 0 THEN PoolRest(strSlicePool) ELSE strSlicePool
    \* for k := range r.Fields, in any order, then sort.Strings(keys)
    /\ \E order \in Perms(fields) :
          stack' = (IF Len(fields) > 0
                    THEN LET keys == SortStrings(KeysOf(order)) IN
                         JSONFields(keys) \o <<PutKeys(keys)>>
                    ELSE <<>>)
                   \o <<Write(Punct("}")), Return, PutVisited, PutBuf>>
    /\ UNCHANGED <<formatter, maxDepth, heap, fields, out>>
    /\ UNCHANGED <<pipelineVars, faults, fileVars, auxVars>>

\* Format of loggo/formatter/text.go up to its first renderText
TextFormat ==
    /\ formatter = "text"
    /\ CanFormat
    /\ formats' = formats + 1
    /\ fpc' = "running"
    /\ prevOut' = out
    /\ rendered' = {}
    /\ buf' = TextHeader \o (IF Len(fields) > 0 THEN <<Punct(" |")>> ELSE <<>>)
    /\ visited' = {}
    /\ \E order \in Perms(fields) :
          stack' = TextFields(SortStrings(KeysOf(order))) \o <<Return>>
    /\ UNCHANGED <<formatter, maxDepth, heap, fields, out, bufPool, strSlicePool,
                   visitedPool>>
    /\ UNCHANGED <<pipelineVars, faults, fileVars, auxVars>>

\* Format of unnamed/part_012 up to its first writeJSON
JsonFormat012 ==
    /\ formatter = "json012"
    /\ CanFormat
    /\ formats' = formats + 1
    /\ fpc' = "running"
    /\ prevOut' = out
    /\ rendered' = {}
    /\ buf' = JSONHeader
    /\ visited' = {}
    /\ \E order \in Perms(fields) :
          stack' = JSONFields(SortStrings(KeysOf(order)))
                   \o <<Write(Punct("}")), Return>>
    /\ UNCHANGED <<formatter, maxDepth, heap, fields, out, bufPool, strSlicePool,
                   visitedPool>>
    /\ UNCHANGED <<pipelineVars, faults, fileVars, auxVars>>

\* Format of core/formatter/json.go: the fields in the order the range
\* statement yields them, each written by writeValue
JsonFormatUnsorted ==
    /\ formatter = "jsonUnsorted"
    /\ CanFormat
    /\ formats' = formats + 1
    /\ fpc' = "running"
    /\ prevOut' = out
    /\ rendered' = {}
    /\ visited' = {}
    /\ \E order \in Perms(fields) :
          /\ buf' = JSONHeader
          /\ stack' = Flatten([i \in 1..Len(order) |->
                                <<Write(Punct(",")), Write(KeyTok(order[i].key)),
                                  Write(Punct(":")), Write(writeValue(order[i].val))>>])
                      \o <<Write(Punct("}")), Return>>
    /\ UNCHANGED <<formatter, maxDepth, heap, fields, out, bufPool, strSlicePool,
                   visitedPool>>
    /\ UNCHANGED <<pipelineVars, faults, fileVars, auxVars>>

Running == fpc \in {"running", "panicking"} /\ stack /= <<>>
\* the state of the call once the step at the top of the stack is done
After(rest) ==
    IF rest /= <<>> THEN fpc
    ELSE IF fpc = "panicking" THEN "panicked" ELSE "done"

\* a getKeysSlice in the call: it is followed by its putKeysSlice unless
\* the call panics in between
TakesKeys(res) ==
    res.panics \/ \E i \in 1..Len(res.items) : res.items[i].op = "putKeysSlice"

\* one call of writeJSON, writeByReflect or renderText up to its first
\* nested call
WriteValue ==
    /\ fpc = "running" /\ stack /= <<>>
    /\ Head(stack).op \in {"write", "writeByReflect"}
    /\ LET item == Head(stack)
           res == Dispatch(item)
       IN /\ ~res.panics
          /\ buf' = buf \o res.toks
          /\ visited' = IF res.mark /= 0 THEN visited \cup {res.mark} ELSE visited
          /\ stack' = res.items \o Tail(stack)
          /\ strSlicePool' = IF TakesKeys(res) THEN PoolRest(strSlicePool)
                             ELSE strSlicePool
          /\ rendered' = IF item.op = "write" /\ item.d >= maxDepth THEN rendered
                         ELSE rendered \cup {[v |-> item.v, d |-> item.d]}
    /\ UNCHANGED <<formatter, maxDepth, heap, fields, fpc, out, bufPool, visitedPool,
                   formats, prevOut>>
    /\ UNCHANGED <<pipelineVars, faults, fileVars, auxVars>>

\* a call that panics: only the deferred calls of the frames below run
Panic ==
    /\ fpc = "running" /\ stack /= <<>>
    /\ Head(stack).op \in {"write", "writeByReflect"}
    /\ LET item == Head(stack)
           res == Dispatch(item)
       IN /\ res.panics
          /\ visited' = IF res.mark /= 0 THEN visited \cup {res.mark} ELSE visited
          /\ stack' = SelectSeq(res.items \o Tail(stack),
                                LAMBDA i : i.op \in Deferred)
          /\ strSlicePool' = PoolRest(strSlicePool)
          /\ rendered' = rendered \cup {[v |-> item.v, d |-> item.d]}
    /\ fpc' = "panicking"
    /\ UNCHANGED <<formatter, maxDepth, heap, fields, buf, out, bufPool, visitedPool,
                   formats, prevOut>>
    /\ UNCHANGED <<pipelineVars, faults, fileVars, auxVars>>

\* b.WriteByte, b.WriteString, writeJSONString
WriteToken ==
    /\ Running
    /\ Head(stack).op = "buffer"
    /\ buf' = Append(buf, Head(stack).tok)
    /\ stack' = Tail(stack)
    /\ UNCHANGED <<formatter, maxDepth, heap, fields, fpc, visited, out, bufPool,
                   strSlicePool, visitedPool, formats, prevOut, rendered>>
    /\ UNCHANGED <<pipelineVars, faults, fileVars, auxVars>>

\* ReleaseVisited with a release that empties the map
ReleaseVisitedAll ==
    /\ Running
    /\ Head(stack).op = "release"
    /\ visited' = {}
    /\ stack' = Tail(stack)
    /\ UNCHANGED <<formatter, maxDepth, heap, fields, fpc, buf, out, bufPool,
                   strSlicePool, visitedPool, formats, prevOut, rendered>>
    /\ UNCHANGED <<pipelineVars, faults, fileVars, auxVars>>

\* the release of markAndCheck, deferred by the call that marked
ReleaseVisited ==
    /\ Running
    /\ Head(stack).op = "release"
    /\ visited' = visited \ {Head(stack).v.x}
    /\ stack' = Tail(stack)
    /\ UNCHANGED <<formatter, maxDepth, heap, fields, fpc, buf, out, bufPool,
                   strSlicePool, visitedPool, formats, prevOut, rendered>>
    /\ UNCHANGED <<pipelineVars, faults, fileVars, auxVars>>

PutKeysSlice ==
    /\ Running
    /\ Head(stack).op = "putKeysSlice"
    /\ strSlicePool' = Append(strSlicePool, putKeysSlice(Head(stack).ks))
    /\ stack' = Tail(stack)
    /\ UNCHANGED <<formatter, maxDepth, heap, fields, fpc, buf, visited, out, bufPool,
                   visitedPool, formats, prevOut, rendered>>
    /\ UNCHANGED <<pipelineVars, faults, fileVars, auxVars>>

\* return out, nil  with out a copy of the buffer (b.Bytes() in the
\* formatters without a pool)
FormatReturn ==
    /\ Running
    /\ Head(stack).op = "return"
    /\ out' = buf
    /\ stack' = Tail(stack)
    /\ fpc' = After(Tail(stack))
    /\ UNCHANGED <<formatter, maxDepth, heap, fields, buf, visited, bufPool,
                   strSlicePool, visitedPool, formats, prevOut, rendered>>
    /\ UNCHANGED <<pipelineVars, faults, fileVars, auxVars>>

\* defer putVisited(visited)
PutVisitedStep ==
    /\ Running
    /\ Head(stack).op = "putVisited"
    /\ visitedPool' = Append(visitedPool, putVisited(visited))
    /\ visited' = {}
    /\ stack' = Tail(stack)
    /\ fpc' = After(Tail(stack))
    /\ UNCHANGED <<formatter, maxDepth, heap, fields, buf, out, bufPool, strSlicePool,
                   formats, prevOut, rendered>>
    /\ UNCHANGED <<pipelineVars, faults, fileVars, auxVars>>

\* defer putBuf(b)
PutBufStep ==
    /\ Running
    /\ Head(stack).op = "putBuf"
    /\ bufPool' = Append(bufPool, putBuf(buf))
    /\ buf' = <<>>
    /\ stack' = Tail(stack)
    /\ fpc' = After(Tail(stack))
    /\ UNCHANGED <<formatter, maxDepth, heap, fields, visited, out, strSlicePool,
                   visitedPool, formats, prevOut, rendered>>
    /\ UNCHANGED <<pipelineVars, faults, fileVars, auxVars>>

\* a formatter with its depth limit and a record to format
NewFormatter(names, depths, records) ==
    /\ InitLogger
    /\ faults = [r \in Routes |-> {}]
    /\ NoFileWriter
    /\ NoAux
    /\ ppc = [p \in Producers |-> "absent"]
    /\ kpc = [k \in Closers |-> "absent"]
    /\ formatter \in names
    /\ maxDepth \in depths
    /\ \E r \in records : heap = r.heap /\ fields = r.fields
    /\ fpc = "idle"
    /\ stack = <<>> /\ buf = <<>> /\ visited = {} /\ out = <<>>
    /\ bufPool = <<>> /\ strSlicePool = <<>> /\ visitedPool = <<>>
    /\ formats = 0 /\ prevOut = <<>> /\ rendered = {}

InitFormat == NewFormatter({"json", "text"}, 0..DepthLimit, Records)
NextFormat ==
    \/ JsonFormat \/ TextFormat \/ WriteValue \/ Panic \/ WriteToken
    \/ ReleaseVisited \/ PutKeysSlice \/ FormatReturn \/ PutVisitedStep \/ PutBufStep
SpecFormat == InitFormat /\ [][NextFormat]_vars

InitFormat012 == NewFormatter({"json012"}, 0..DepthLimit, Records)
NextFormat012 ==
    JsonFormat012 \/ WriteValue \/ WriteToken \/ ReleaseVisited \/ FormatReturn
SpecFormat012 == InitFormat012 /\ [][NextFormat012]_vars

\* the formatter of core/formatter/json.go has no depth limit; the records
\* with up to three fields keep the orders of a range statement few
FewFields == {r \in Records : Len(r.fields) <= 3}
InitFormatUnsorted == NewFormatter({"jsonUnsorted"}, {0}, FewFields)
NextFormatUnsorted == JsonFormatUnsorted \/ WriteToken \/ FormatReturn
SpecFormatUnsorted == InitFormatUnsorted /\ [][NextFormatUnsorted]_vars

(* ------------------------------- claims ------------------------------- *)

\* occurrences of x in the sequence s
Count(s, x) == Len(SelectSeq(s, LAMBDA e : e = x))

\* some call of Logger.Close has returned
CloseReturned == \E k \in Closers : kpc[k] = "returned"

\* the records a producer holds in a send that has not completed, on route r
InSend(r) == {prec[p] : p \in {q \in Producers : ppc[q] = "send" /\ pidx[q] = r}}

\* C1: every record that entered a route's queue is, at every moment, either
\* still queued or written exactly once, never both and never twice; once
\* Logger.Close has returned every record Enqueue accepted has been written
\* exactly once and none is queued or in flight.
C1_AcceptedWrittenOnce ==
    /\ \A r \in Routes : \A rec \in SeqSet(enq[r]) :
          Count(Writes(sink[r]), rec) + Count(queue[r], rec) = 1
    /\ CloseReturned =>
          \A r \in Routes :
              /\ accepted[r] = SeqSet(enq[r])
              /\ \A rec \in accepted[r] : Count(Writes(sink[r]), rec) = 1

C1_Witness ==
    /\ CloseReturned
    /\ \E r \in Routes : Len(Writes(sink[r])) >= 2

\* C2: no producer is ever at its channel send on a route whose channel has
\* been closed, and no send on a closed channel happens.
C2_NoSendOnClosedChannel ==
    /\ panic /= "send on closed channel"
    /\ \A p \in Producers : ppc[p] = "send" => ~chanClosed[pidx[p]]

\* C3: an Enqueue that finds the route open is accepted; once the route is
\* closed an Enqueue leaves the queue and the sink as they are, adds nothing
\* to the records that entered the queue, and returns; nothing panics.
C3_ClosedRouteRejects ==
    [][ /\ panic' = "none"
        /\ \A r \in Routes : closed[r] =>
              /\ enq'[r] = enq[r]
              /\ accepted'[r] = accepted[r]
        /\ \A r \in Routes : rejected'[r] /= rejected[r] =>
              /\ closed[r]
              /\ UNCHANGED <<queue, sink, enq, accepted, closed, chanClosed>>
        /\ \A p \in Producers :
              (ppc[p] = "enqueue" /\ <<ppc'[p], pidx'[p]>> /= <<ppc[p], pidx[p]>>)
              => IF closed[pidx[p]]
                 THEN prec[p] \in rejected'[pidx[p]]
                 ELSE prec[p] \in accepted'[pidx[p]]
      ]_vars

C3_Witness ==
    /\ CloseReturned
    /\ \E r \in Routes : rejected[r] /= {}
    /\ \A p \in Producers : ppc[p] \in {"idle", "absent"}

\* C4: on every route the records written so far are, in order, the first
\* records that entered the queue.
C4_SinkOrderIsQueueOrder ==
    \A r \in Routes : IsPrefix(Writes(sink[r]), enq[r])

C4_Witness ==
    \E r \in Routes :
        /\ Len(Writes(sink[r])) >= 2
        /\ exitVia[r] = "cancelPending"
        /\ cpc[r] = "done"

\* C5: a record Enqueue accepted on an open route is never given up: it has
\* entered the queue or its producer is still in the send; and no queue
\* holds more records than its capacity.
C5_EnqueueNeverDrops ==
    \A r \in Routes :
        /\ accepted[r] \subseteq (SeqSet(enq[r]) \cup InSend(r))
        /\ Len(queue[r]) <= QueueCap

\* C6: when Logger.Close has returned every consumer has ended, with its
\* queue empty, every record written and the flush done; and the sink is
\* as it was when Close returned.
C6_CloseJoinsConsumers ==
    \A k \in Closers : kpc[k] = "returned" =>
        /\ \A r \in Routes :
              /\ cpc[r] = "done"
              /\ queue[r] = <<>>
              /\ Writes(sink[r]) = enq[r]
              /\ Flushes(sink[r]) = IF flushable[r] THEN 1 ELSE 0
        /\ sink = returnedAt[k]

C6_Witness ==
    /\ CloseReturned
    /\ \A r \in Routes : Writes(sink[r]) /= <<>>

\* C7: a consumer flushes nothing before its drain has ended; when it has
\* ended the channel is closed and empty, every record that entered the
\* queue is written, and a flushable sink has received exactly one Flush,
\* as its last call.
C7_DrainThenFlushOnce ==
    \A r \in Routes :
        /\ cpc[r] \in {"select", "drain"} => Flushes(sink[r]) = 0
        /\ cpc[r] \in {"flushed", "done"} =>
              /\ chanClosed[r]
              /\ queue[r] = <<>>
              /\ Writes(sink[r]) = enq[r]
              /\ IF flushable[r]
                 THEN /\ Flushes(sink[r]) = 1
                      /\ sink[r][Len(sink[r])] = FlushMark
                 ELSE Flushes(sink[r]) = 0

C7_Witness ==
    \E r \in Routes :
        /\ flushable[r]
        /\ cpc[r] = "done"
        /\ exitVia[r] = "cancelPending"
        /\ sink[r][Len(sink[r])] = FlushMark

\* C8: a consumer that left its receive loop on cancellation has left for
\* its drain, loses no queued record on the way, and ends only when every
\* record Enqueue accepted on the route has been written.
C8_CancelDropsNothing ==
    \A r \in Routes : exitVia[r] \in {"cancel", "cancelPending"} =>
        /\ cpc[r] /= "select"
        /\ Writes(sink[r]) \o queue[r] = enq[r]
        /\ cpc[r] \in {"flushed", "done"} =>
              accepted[r] = SeqSet(Writes(sink[r]))

C8_Witness ==
    \E r \in Routes :
        /\ exitVia[r] = "cancelPending"
        /\ cpc[r] = "done"
        /\ Writes(sink[r]) = enq[r]

\* C9: each channel is closed at most once and nothing panics, also with
\* two Close calls racing; Route.Close on a route already closed changes
\* nothing of the route; and once one Logger.Close has returned, a further
\* Close changes neither the routes, the sinks, the consumers, the context
\* nor the wait group.
C9_CloseIdempotent ==
    [][ /\ panic' = "none"
        /\ \A r \in Routes : closeCount'[r] <= 1
        /\ \A k \in Closers :
              (kpc[k] = "lock" /\ closed[kidx[k]]
                 /\ <<kpc'[k], kidx'[k]>> /= <<kpc[k], kidx[k]>>)
              => UNCHANGED <<routeVars, consumerVars, loggerVars>>
        /\ CloseReturned => UNCHANGED <<routeVars, consumerVars, loggerVars>>
      ]_vars

C9_Witness ==
    /\ \A k \in Closers : kpc[k] = "returned"
    /\ \A r \in Routes : closeCount[r] = 1
    /\ \E r \in Routes : Writes(sink[r]) /= <<>>

\* C10: ShouldLog admits exactly the levels at or above the route's
\* threshold, and no record below a route's threshold is offered to the
\* route, enters its queue or is written to its sink.
C10_ThresholdRespected ==
    \A r \in Routes :
        /\ \A level \in Levels : ShouldLog(r, level) <=> level >= threshold[r]
        /\ \A rec \in accepted[r] \cup rejected[r] \cup SeqSet(enq[r])
                        \cup SeqSet(queue[r]) \cup SeqSet(Writes(sink[r])) :
              rec.level >= threshold[r]

C10_Witness ==
    /\ \A p \in Producers : ppc[p] \in {"idle", "absent"}
    /\ \E r1, r2 \in Routes :
          \E rec \in SeqSet(Writes(sink[r1])) :
              /\ rec.level < threshold[r2]
              /\ rec \notin accepted[r2] \cup rejected[r2]

\* the records a producer is in the middle of offering to the routes
HeldRecords == {prec[p] : p \in {q \in Producers : ppc[q] \in {"enqueue", "send"}}}

\* the routes whose Enqueue has been called with the record
OfferedTo(rec) == {r \in Routes : rec \in accepted[r] \cup rejected[r]}

\* C11: every record built by an emit is offered to exactly the routes whose
\* threshold admits its level, to each of them once and to no other route;
\* while its producer is still in the loop it has been offered to exactly
\* the admitting routes the loop has passed.  An emit that no route admits
\* builds no record, so nothing of it is offered or queued anywhere.
C11_OfferedToAdmittingRoutesOnce ==
    LET offered == UNION {accepted[r] \cup rejected[r] : r \in Routes} IN
    /\ Cardinality(offered \cup HeldRecords) = built
    /\ \A rec \in offered \cup HeldRecords :
          /\ rec.id \in 1..built
          /\ AnyRouteShouldLog(rec.level)
          /\ IF rec \in HeldRecords
             THEN \E p \in Producers :
                    /\ prec[p] = rec
                    /\ OfferedTo(rec) =
                         {r \in Routes : /\ rec.level >= threshold[r]
                                         /\ \/ r < pidx[p]
                                            \/ r = pidx[p] /\ ppc[p] = "send"}
             ELSE OfferedTo(rec) = {r \in Routes : rec.level >= threshold[r]}
    /\ \A r \in Routes :
          /\ accepted[r] \cap rejected[r] = {}
          /\ \A rec \in SeqSet(enq[r]) : Count(enq[r], rec) = 1

C11_Witness ==
    /\ \A p \in Producers : ppc[p] \in {"idle", "absent"}
    /\ emitted > built
    /\ \E rec \in accepted[1] : OfferedTo(rec) = Routes
    /\ \E rec \in accepted[1] : OfferedTo(rec) = {1}

\* the records of route r whose Format returned an error
FormatFailed(r) == {f.rec : f \in {g \in faults[r] : g.kind = "format"}}

\* the records the consumer of route r has taken from the queue, in order
Taken(r) == SubSeq(enq[r], 1, Len(enq[r]) - Len(queue[r]))

\* C12: an error of Format, Write or Flush changes nothing but the sink:
\* nothing panics, the producers and the callers of Close are where they
\* were and the consumer stays in its loop; the consumer has called Write
\* for every record it took whose Format succeeded, in order, also for the
\* records after a failed one; and when it has ended the queue is empty and
\* a flushable writer has received its one Flush.
C12_ConsumerSwallowsErrors ==
    [][ /\ panic' = "none"
        /\ \A r \in Routes :
              /\ Writes(sink'[r]) =
                   SelectSeq(Taken(r)', LAMBDA rec : rec \notin FormatFailed(r)')
              /\ cpc'[r] \in {"flushed", "done"} =>
                   /\ queue'[r] = <<>>
                   /\ Flushes(sink'[r]) = IF flushable[r] THEN 1 ELSE 0
              /\ \A f \in faults'[r] \ faults[r] :
                   /\ UNCHANGED <<producerVars, closerVars, loggerVars, enq,
                                  accepted, rejected, chanClosed, closed>>
                   /\ f.kind /= "flush" => cpc'[r] = cpc[r]
                   /\ f.kind = "flush" => cpc'[r] = "flushed"
      ]_vars

C12_Witness ==
    \E r \in Routes :
        /\ cpc[r] = "done"
        /\ flushable[r]
        /\ [rec |-> FlushMark, kind |-> "flush"] \in faults[r]
        /\ \E i, j \in 1..Len(enq[r]) :
              /\ i < j
              /\ \E f \in faults[r] : f.rec = enq[r][i] /\ f.kind /= "flush"
              /\ enq[r][j] \in SeqSet(Writes(sink[r]))
              /\ \A f \in faults[r] : f.rec /= enq[r][j]


(* ------------------------- claims: the file sink ----------------------- *)

\* a step in which Write evaluates the two rotation predicates
WriteEntered == wpc = "idle" /\ wpc' \in {"rotate", "append"}

\* C13: Write goes into rotate exactly when the interval is set and the
\* clock is after the next rotation instant, or maxSizeMB is positive and
\* the current size plus the incoming length exceeds maxSizeMB * 1,048,576;
\* rotate is entered from Write only; and a sink with no interval and
\* maxSizeMB = 0 never rotates.
C13_RotatesExactlyOnPredicates ==
    [][ /\ WriteEntered =>
             (wpc' = "rotate" <=>
                \/ rotateInterval /= "" /\ now > nextRotateTime
                \/ maxSizeMB > 0 /\ size + wp'.len > maxSizeMB * 1048576)
        /\ rotations' /= rotations => wpc = "rotate"
        /\ wpc' = "rotate" /\ wpc /= "rotate" => WriteEntered
        /\ rotateInterval = "" /\ maxSizeMB = 0 => rotations' = 0
      ]_vars

\* a Write has rotated on time alone, another on size alone, and a sink with
\* both limits has written without rotating
C13_Witness ==
    \/ /\ wpc = "rotate"
       /\ rotateInterval /= "" /\ now > nextRotateTime
       /\ ~(maxSizeMB > 0 /\ size + wp.len > maxSizeMB * MiB)
    \/ /\ wpc = "rotate"
       /\ ~(rotateInterval /= "" /\ now > nextRotateTime)
       /\ maxSizeMB > 0 /\ size + wp.len > maxSizeMB * MiB
       /\ size <= maxSizeMB * MiB

\* a step in which Write returns to its caller
WriteReturned == wpc \in {"rotate", "open", "append"} /\ wpc' = "idle"

\* the bytes of the file at path together with those still in the buffer
ActiveBytes == IF active = NoFile THEN 0 ELSE active.size + writer.n

C15_RotationSchedulesNext ==
    wpc = "cleanup" /\ rotateInterval /= "" =>
        /\ active = [size |-> 0, data |-> <<>>]
        /\ size = 0
        /\ ~(now > nextRotateTime)


\* no compression goroutine is running
CompressionsFinished == \A g \in 1..Len(gz) : gz[g].pc = "done"

\* C16: with maxBackups > 0, when no Write is in progress and the background
\* compressions have finished, the directory holds at most maxBackups
\* archives of the file, after any sequence of rotations (here: of
\* rotations in which no call into the file system failed).
C16_AtMostMaxBackupsWhenQuiet ==
    maxBackups > 0 /\ wpc = "idle" /\ CompressionsFinished /\ ioFaults = 0 =>
        Cardinality(backups) <= maxBackups


\* a step in which rotate runs cleanupBackups
CleanupStep == wpc = "cleanup" /\ wpc' = "append"

\* the archives a cleanup step removes
Removed == backups \ backups'

C18_FailedCompressionKeepsArchive ==
    [][ \A g \in 1..Len(gz) :
          gz[g].pc = "remove" /\ ~gz[g].ok /\ gz'[g].pc = "done" =>
              Named(backups', gz[g].src, FALSE) = Named(backups, gz[g].src, FALSE)
      ]_vars


\* C19: the sink keeps a usable file handle when rotation fails inside
\* Write: a Write whose rotation predicates are false, also one that comes
\* after a Write that returned the error of rotate, appends to an open file.
C19_AppendsToOpenFile ==
    wpc = "append" /\ ~shouldRotateByTime(lastCall.now)
                   /\ ~(maxSizeMB > 0 /\ lastCall.size + wp.len > maxSizeMB * MiB) =>
        file = "open"


\* what has been written through the buffered writer to the file at path:
\* the bytes in the file followed by the bytes still in the buffer
Stream == active.data \o writer.buf

Formatted == fpc = "done"

IsKey(tok) == tok.t \in {"key", "name"}
Opens == {Punct("{"), Punct("[")}
Closes == {Punct("}"), Punct("]")}
\* how many objects and arrays are open before the token at i
Nesting(toks, i) ==
    Cardinality({j \in 1..(i - 1) : toks[j] \in Opens})
    - Cardinality({j \in 1..(i - 1) : toks[j] \in Closes})
\* the keys at i and j are neighbours in one object: on one level, with
\* nothing between them on a level below and no key between them on theirs
NeighbourKeys(toks, i, j) ==
    /\ i < j
    /\ IsKey(toks[i]) /\ IsKey(toks[j])
    /\ Nesting(toks, i) = Nesting(toks, j)
    /\ \A m \in (i + 1)..(j - 1) :
          /\ Nesting(toks, m) >= Nesting(toks, i)
          /\ ~(IsKey(toks[m]) /\ Nesting(toks, m) = Nesting(toks, i))
KeysSorted(toks) ==
    \A i, j \in 1..Len(toks) :
        NeighbourKeys(toks, i, j) => Rank(toks[i].s) < Rank(toks[j].s)

\* C21: in the bytes either formatter returns, the keys of every object
\* (the top-level fields, a nested map, a nested struct) stand in ascending
\* lexicographic order.
C21_KeysSortedAtEveryLevel == Formatted => KeysSorted(out)

\* C22: a second Format of the same record returns the bytes the first one
\* returned, whatever order the range statements visit the fields in.
C22_FormatDeterministic == Formatted /\ formats >= 2 => out = prevOut

\* the scheduler runs the goroutine that called Format
SpecFormatFair == SpecFormat /\ WF_vars(NextFormat)
\* every Format that was entered comes to its end
FormatTerminates == (fpc = "running") ~> (fpc \in {"done", "panicked"})

\* C23: Format terminates, and no value is rendered at a depth of maxDepth
\* or more: a call at such a depth writes <max_depth> and goes no deeper.
C23_NothingRenderedAtMaxDepth ==
    /\ FormatTerminates
    /\ [](\A r \in rendered : r.d < maxDepth)

\* what the JSON formatter wrote for the fields: the bytes between the
\* comma after the message and the closing brace
JSONBody == SubSeq(out, Len(JSONHeader) + 2, Len(out) - 1)

\* the JSON formatter has returned the record whose field level1 is
\* {level2: {level3: "deep"}}
DeepFormatted ==
    /\ Formatted
    /\ formatter = "json"
    /\ fields = DeepMaps.fields /\ heap = DeepMaps.heap

\* the value under the key level<n>, which Format reaches at depth n - 1
DeepValue(n) ==
    LET RECURSIVE value(_)
        value(i) ==
            IF i - 1 >= maxDepth THEN <<StrTok("<max_depth>")>>
            ELSE IF i = 3 THEN <<StrTok("deep")>>
            ELSE <<Punct("{"), KeyTok(KeyOrder[Rank("level1") + i]), Punct(":")>>
                 \o value(i + 1) \o <<Punct("}")>>
    IN value(n)

\* C24 as stated: with maxDepth = 2 the value under level2, reached through
\* two keys counted from the field key, is the one replaced.
C24_SentinelUnderSecondKey ==
    DeepFormatted /\ maxDepth = 2 =>
        JSONBody = <<KeyTok("level1"), Punct(":"),
                     Punct("{"), KeyTok("level2"), Punct(":"),
                     StrTok("<max_depth>"), Punct("}")>>

\* C24: the value of a field is at depth 0 and a value reached through n
\* keys counted from the field key at depth n - 1; the one at depth
\* maxDepth is replaced. With maxDepth = 2 the field level1 is rendered as
\* "level1":{"level2":{"level3":"<max_depth>"}}.
C24_SentinelAtDepthMaxDepth ==
    DeepFormatted =>
        /\ JSONBody = <<KeyTok("level1"), Punct(":")>> \o DeepValue(1)
        /\ maxDepth = 2 =>
              JSONBody = <<KeyTok("level1"), Punct(":"),
                           Punct("{"), KeyTok("level2"), Punct(":"),
                           Punct("{"), KeyTok("level3"), Punct(":"),
                           StrTok("<max_depth>"), Punct("}"), Punct("}")>>

C24_Witness ==
    /\ DeepFormatted
    /\ maxDepth = 2
    /\ \E i \in 1..Len(out) : out[i] = StrTok("<max_depth>")

\* the call at the top of the stack is on a map, slice or pointer that a
\* call below it on the stack has marked and not yet released
AtBackReference ==
    /\ fpc = "running" /\ stack /= <<>>
    /\ Head(stack).op \in {"write", "writeByReflect"}
    /\ ~(Head(stack).op = "write" /\ Head(stack).d >= maxDepth)
    /\ Head(stack).v.k \in {"map[string]any", "[]any", "map[string]int",
                            "map[int]any", "[]int", "*struct"}
    /\ Head(stack).v.x /= 0
    /\ Head(stack).v.x \in visited
IsCycleToken(tok) == tok.s = "<cycle>"

\* C25: Format terminates on records whose values contain a cycle through
\* maps, slices or pointers, and a call that reaches a back-reference
\* writes <cycle> and returns without a nested call; m["self"] = m as the
\* field x gives "x":{"self":"<cycle>"}.
C25_CycleSentinelAtBackReference ==
    /\ FormatTerminates
    /\ [][ AtBackReference =>
             /\ Len(buf') = Len(buf) + 1
             /\ IsCycleToken(buf'[Len(buf')])
             /\ stack' = Tail(stack)
             /\ visited' = visited ]_vars
    /\ [](Formatted /\ formatter = "json" /\ maxDepth >= 2
          /\ fields = CyclicMap.fields /\ heap = CyclicMap.heap =>
            JSONBody = <<KeyTok("x"), Punct(":"), Punct("{"), KeyTok("self"),
                         Punct(":"), StrTok("<cycle>"), Punct("}")>>)

\* the cyclic map has been formatted, the back-reference written as <cycle>
C25_Witness ==
    /\ Formatted
    /\ fields = CyclicMap.fields /\ heap = CyclicMap.heap
    /\ \E i \in 1..Len(out) : IsCycleToken(out[i])
    /\ visited = {}

\* C26: a call writes <cycle> only for a value that a call below it on the
\* stack has marked: a map, slice or pointer met a second time after its
\* release, or met once on the reflection path, is rendered in full.
C26_CycleOnlyOnRecursionPath ==
    [][ /\ fpc = "running" /\ stack /= <<>>
        /\ Head(stack).op \in {"write", "writeByReflect"}
        /\ Len(buf') > Len(buf)
        /\ IsCycleToken(buf'[Len(buf')])
        => AtBackReference ]_vars

\* every object in the pools is reset: no buffer holds a byte, no key
\* slice a key, no visited set an identity
PoolsReset ==
    /\ \A i \in 1..Len(bufPool) : bufPool[i] = <<>>
    /\ \A i \in 1..Len(strSlicePool) :
          \A j \in 1..Len(strSlicePool[i]) : strSlicePool[i][j] = ""
    /\ \A i \in 1..Len(visitedPool) : visitedPool[i] = {}

\* C27: when Format of the JSON formatter has returned, the buffer, the
\* visited set and the key slices it took are back in their pools, and
\* the pools hold only reset objects: no bytes, no keys, no identities.
C27_PooledResourcesReset ==
    /\ PoolsReset
    /\ Formatted /\ formatter = "json" =>
          /\ stack = <<>>
          /\ buf = <<>> /\ visited = {}
          /\ Len(bufPool) = 1
          /\ Len(visitedPool) = 1
          /\ Len(fields) > 0 => strSlicePool /= <<>>

\* the record with the cyclic map has been formatted a second time, with
\* the pooled objects of the first call
C27_Witness ==
    /\ Formatted /\ formatter = "json"
    /\ formats = 2
    /\ fields = CyclicMap.fields /\ heap = CyclicMap.heap
    /\ maxDepth >= 2
    /\ \E i \in 1..Len(strSlicePool) : Len(strSlicePool[i]) > 0
    /\ out = prevOut

\* C28: Format of the JSON and of the text formatter does not abort: no
\* call panics, and a Format that was entered returns its bytes.
C28_FormatNeverFails ==
    /\ fpc \notin {"panicking", "panicked"}
    /\ Formatted => out /= <<>>

\* the keys under which a struct is to appear: of its exported fields
\* without those tagged "-" and those tagged omitempty that are zero, the
\* tag name or else the field name, each once, in ascending order
EffectiveKey(e) == IF e.tagName /= "" THEN e.tagName ELSE e.key
StructKeys(entries) ==
    SelectSeq(KeyOrder, LAMBDA k :
        \E i \in 1..Len(entries) :
            /\ entries[i].exported
            /\ entries[i].tagName /= "-"
            /\ ~(entries[i].omit /\ IsZero(entries[i].val))
            /\ EffectiveKey(entries[i]) = k)
\* the call at the top of the stack renders a struct
AtStruct ==
    /\ fpc = "running" /\ stack /= <<>>
    /\ Head(stack).op \in {"write", "writeByReflect"}
    /\ Head(stack).v.k = "struct"
    /\ ~(Head(stack).op = "write" /\ Head(stack).d >= maxDepth)
\* what the call at the top of the stack has written and will write
Written(before, after) ==
    LET pushed == SubSeq(after, 1, Len(after) - Len(before) + 1)
        writes == SelectSeq(pushed, LAMBDA i : i.op = "buffer")
    IN [i \in 1..Len(writes) |-> writes[i].tok]

\* C29: a struct is written as one object: one opening brace, the keys of
\* its exported, not skipped and not omitted fields, each once under its
\* effective key in ascending order, and one closing brace.
C29_StructRenderedAsOneObject ==
    [][ AtStruct =>
          LET toks == Written(stack, stack')
              keys == SelectSeq(toks, IsKey)
          IN /\ buf' = Append(buf, Punct("{"))
             /\ [i \in 1..Len(keys) |-> keys[i].s] = StructKeys(heap[Head(stack).v.x])
             /\ Len(SelectSeq(toks, LAMBDA t : t = Punct("}"))) = 1
             /\ toks[Len(toks)] = Punct("}") ]_vars

\* the text written for the value of the field k: the token behind the key
\* and its separator
ValueText(k) ==
    LET i == CHOOSE i \in 1..Len(out) : IsKey(out[i]) /\ out[i].s = k
    IN out[i + 2].s

\* C30: both formatters write an error as its Error() text, a fmt.Stringer
\* as its String() text and a time.Time in RFC 3339 with nanoseconds.
C30_LeavesRenderedAsStrings ==
    Formatted /\ maxDepth >= 1 /\ fields = Leaves.fields =>
        /\ ValueText("a") = ErrorText
        /\ ValueText("b") = TimeText
        /\ ValueText("c") = StringerText

(* ------------------- claims: the file sink, continued ------------------ *)

\* a call of Flush from its entry to its return
FlushCall ==
    /\ wpc = "idle" /\ wpc' = "idle"
    /\ calls' = calls + 1
    /\ wret' \in {"flushNil", "flushErr"}

\* C33: a Flush that follows a Flush which returned nil, with no Write in
\* between, returns nil and changes neither the file, nor the buffered
\* writer, nor currentSize.
C33_FlushOfFlushedIsNoOp ==
    [][ FlushCall /\ wret = "flushNil" =>
          /\ wret' = "flushNil"
          /\ active' = active
          /\ writer' = writer
          /\ size' = size
          /\ file' = file /\ backups' = backups ]_vars

\* Write, Flush, Flush: the line of the first call is in the file and the
\* third call has returned nil
C33_Witness ==
    /\ wpc = "idle" /\ wret = "flushNil"
    /\ calls = 3 /\ rotations = 0 /\ ioFaults = 0
    /\ writer.n = 0
    /\ Len(active.data) = 1 /\ active.data[1].id = 1

\* the instant is a midnight of the local calendar
LocalMidnight(t) == (t + zone) % Day = 0

\* the rotation instant NewFileWriter has scheduled
Scheduled(interval) == wpc = "idle" /\ rotateInterval = interval

WeeklyIsNextMonday ==
    Scheduled("week") =>
        /\ LocalMidnight(nextRotateTime)
        /\ LocalDay(nextRotateTime) % 7 = 0
        /\ LocalDay(nextRotateTime) > LocalDay(now)
        /\ LocalDay(nextRotateTime) <= LocalDay(now) + 7
        /\ (LocalDay(now) % 7 = 0 =>
              LocalDay(nextRotateTime) = LocalDay(now) + 7)

MonthlyIsFirstOfNextMonth ==
    Scheduled("month") =>
        LET c == CivilOf(now)
            n == CivilOf(nextRotateTime)
        IN  /\ LocalMidnight(nextRotateTime)
            /\ n.day = 1
            /\ n.month = (c.month % 12) + 1
            /\ n.year = IF c.month = 12 THEN c.year + 1 ELSE c.year

\* C34 as stated: nextRotation(now, interval) is strictly later than now;
\* daily is the start of the next day, weekly the next Monday 00:00
\* strictly after now (7 days ahead on a Monday), monthly 00:00 on the
\* first day of the following month, all in the local time the weekly and
\* the monthly instants are computed in.
C34_NextRotationLocalDay ==
    /\ (wpc = "idle" /\ rotateInterval /= "" => nextRotateTime > now)
    /\ (Scheduled("day") =>
          /\ LocalMidnight(nextRotateTime)
          /\ LocalDay(nextRotateTime) = LocalDay(now) + 1)
    /\ WeeklyIsNextMonday
    /\ MonthlyIsFirstOfNextMonth

\* C34, amended: nextRotation(now, interval) is strictly later than now;
\* daily is the next midnight UTC, at most 24 hours ahead, which is the
\* start of the next local day only where local time is UTC; weekly is the
\* next local Monday 00:00 strictly after now, monthly the local 00:00 of
\* the first day of the following month.
C34_NextRotationLaterThanNow ==
    /\ (wpc = "idle" /\ rotateInterval /= "" => nextRotateTime > now)
    /\ (Scheduled("day") =>
          /\ nextRotateTime % Day = 0
          /\ nextRotateTime - now <= Day
          /\ (zone = 0 => LocalDay(nextRotateTime) = LocalDay(now) + 1))
    /\ WeeklyIsNextMonday
    /\ MonthlyIsFirstOfNextMonth

\* 01:00 of Tuesday 9 January in UTC+3: the daily rotation is scheduled
\* for 03:00 of the same local day
C34_Witness ==
    /\ Scheduled("day")
    /\ zone = 3 * Hour
    /\ now = 7 * Day + 22 * Hour
    /\ nextRotateTime = now + 2 * Hour
    /\ LocalDay(nextRotateTime) = LocalDay(now)

NextRotation == ScheduleRotation

\* rotate has renamed the active file to path.<timestamp of now>
Renamed == wpc = "rotate" /\ wpc' = "open"

\* C38: two rotations of one file sink never rename the active file to the
\* same archive name: no rename replaces an archive of an earlier rotation,
\* also when both rotations happen within one second of the wall clock.
C38_RenameNeverOverwritesArchive ==
    [][ Renamed => Named(backups, now, FALSE) = {} ]_vars

SpecRotation == InitRotation /\ [][NextRotation]_vars

\* C39: backup cleanup removes only files whose name starts with
\* "<basename>.": the archives path.<timestamp> and other names with that
\* prefix; it never removes the active file at path, and with
\* maxBackups = 0 it removes no file at all.
C39_CleanupRemovesOnlyPrefixed ==
    [][ CleanupStep =>
          /\ active' = active
          /\ backups' \subseteq backups
          /\ others' \subseteq others
          /\ \A o \in others \ others' : HasPrefix(o, Base \o <<".">>)
          /\ (maxBackups = 0 => backups' = backups /\ others' = others) ]_vars

\* of app.log.1 and other.log the cleanup after a rotation has removed
\* app.log.1 and kept other.log, the new archive and the file at path
C39_Witness ==
    /\ wpc = "append"
    /\ maxBackups = 1
    /\ rotations = 1
    /\ others = {<<"other", ".", "log">>}
    /\ Cardinality(backups) = 1
    /\ active /= NoFile

(* ---------------------- claims: Close and producers --------------------- *)

\* the goroutine of route r started by NewLogger
ConsumerOf(r) ==
    \/ ConsumerRecv(r)
    \/ ConsumerChanClosed(r)
    \/ ConsumerCtxDone(r)
    \/ DrainRecv(r)
    \/ DrainFlush(r)
    \/ ConsumerDone(r)

\* a Logger.Close that has been called
CloseOf(k) == RouteClose(k) \/ Cancel(k) \/ WaitReturn(k)

\* the scheduler runs every goroutine that can take a step: the consumers
\* (whose Format and Write return), a Close that was called, and a producer
\* whose send or lock can proceed
SpecLive ==
    /\ InitOneProducer /\ [][Next]_vars
    /\ \A r \in Routes : WF_vars(ConsumerOf(r))
    /\ \A k \in Closers : WF_vars(CloseOf(k))
    /\ \A p \in Producers : WF_vars(EnqueueRLock(p) \/ EnqueueSend(p))

\* Logger.Close has been called by k and has not returned
InClose(k) == kpc[k] \in {"lock", "cancel", "wait"}

\* C36: Route.Close and Logger.Close eventually return, also when producers
\* are blocked in Enqueue on a full queue, while the consumers run and
\* their writes return: every r.Close() that waits for the write lock gets
\* it and returns, and every Logger.Close that was called returns.
C36_CloseEventuallyReturns ==
    /\ \A k \in Closers : InClose(k) ~> kpc[k] = "returned"
    /\ \A k \in Closers : \A r \in Routes :
          (kpc[k] = "lock" /\ kidx[k] = r) ~> ~(kpc[k] = "lock" /\ kidx[k] = r)

\* Close waits for the write lock of route 1 while the producer holds the
\* read lock, blocked in its send on the full queue
C36_Witness ==
    /\ kpc["c1"] = "lock" /\ kidx["c1"] = 1
    /\ Len(queue[1]) = QueueCap
    /\ readers[1] = 1
    /\ ppc["p1"] = "send" /\ pidx["p1"] = 1

(* -------------------- claims: the fields payload ----------------------- *)

\* the payload of the raw record is not the JSON of an object
Unparseable(rec) == Len(rec.fields) > 0 /\ Unmarshal(rec.fields).err

\* the Writes of route r made for the raw record
WritesOf(r, rec) == SelectSeq(Writes(sink[r]), LAMBDA e : e.id = rec.id)

\* C40: a raw record accepted by Enqueue whose fields payload fails to
\* parse as JSON is not dropped by the consumer: it is in its send, queued,
\* or formatted and written exactly once, with its level and empty fields,
\* and written once the consumer has ended.
C40_UnparseableWrittenOnce ==
    \A r \in Routes : \A rec \in accepted[r] :
        Unparseable(rec) =>
            /\ Len(WritesOf(r, rec)) + Count(queue[r], rec)
                  + (IF rec \in InSend(r) THEN 1 ELSE 0) = 1
            /\ \A i \in 1..Len(WritesOf(r, rec)) :
                  WritesOf(r, rec)[i]
                    = [id |-> rec.id, level |-> rec.level, fields |-> {}]
            /\ cpc[r] = "done" => Len(WritesOf(r, rec)) = 1

\* the consumer of route 1 has ended after writing a record whose payload
\* was cut off, with no fields, and a record with its field a = 1
C40_Witness ==
    /\ cpc[1] = "done"
    /\ \E rec \in accepted[1] :
          /\ rec.fields = <<"{", "a", ":", "1", ",">>
          /\ Len(WritesOf(1, rec)) = 1
          /\ WritesOf(1, rec)[1].fields = {}
    /\ \E rec \in accepted[1] :
          /\ ~Unparseable(rec)
          /\ Len(WritesOf(1, rec)) = 1
          /\ WritesOf(1, rec)[1].fields = {[k |-> "a", v |-> "1"]}

(* -------------------------- string rendering --------------------------- *)

\* the characters of a string value: carriage return, line feed, the double
\* quote, and two runs of letters that stand for any other text
CR == "CR"
LF == "LF"
Chars == {"hello", "world", CR, LF, "\""}

RECURSIVE StringsUpTo(_)
StringsUpTo(n) ==
    IF n = 0 THEN {<<>>}
    ELSE LET shorter == StringsUpTo(n - 1)
         IN  shorter \cup {Append(t, c) : t \in shorter, c \in Chars}

\* strings.ReplaceAll: the occurrences of old, found from left to right
\* without overlap, replaced by new
RECURSIVE ReplaceAll(_, _, _)
ReplaceAll(s, old, new) ==
    IF Len(s) < Len(old) THEN s
    ELSE IF SubSeq(s, 1, Len(old)) = old
    THEN new \o ReplaceAll(SubSeq(s, Len(old) + 1, Len(s)), old, new)
    ELSE <<Head(s)>> \o ReplaceAll(Tail(s), old, new)

\* strings.Contains, and strings.IndexByte(s, c) /= -1 for one character
Contains(s, sub) ==
    \E i \in 1..(Len(s) - Len(sub) + 1) : SubSeq(s, i, i + Len(sub) - 1) = sub

\* addMultilinePrefix of loggo/formatter/help.go and of
\* loggo/core/formatter/help.go: the two differ in the prefix they insert,
\* the vertical line of ASCII and the box-drawing character U+2502
addMultilinePrefixWith(s, bar) ==
    IF ~Contains(s, <<LF>>) /\ ~Contains(s, <<CR, LF>>)
    THEN s
    ELSE ReplaceAll(ReplaceAll(s, <<CR, LF>>, <<LF>>), <<LF>>, <<LF, bar, " ">>)

\* loggo/formatter/help.go
addMultilinePrefix(s) == addMultilinePrefixWith(s, "|")

\* loggo/core/formatter/help.go
addMultilinePrefixCore(s) == addMultilinePrefixWith(s, "U+2502")

\* strconv.Quote: the string between double quotes, with the double quote
\* and the control characters escaped; printable characters, U+2502 among
\* them, stay as they are
Escape(c) ==
    IF c = "\"" THEN "\\\""
    ELSE IF c = LF THEN "\\n"
    ELSE IF c = CR THEN "\\r"
    ELSE c
Quote(s) == <<"\"">> \o [i \in 1..Len(s) |-> Escape(s[i])] \o <<"\"">>

\* the string rendering is called once, with any string of the bound
InitString ==
    /\ InitLogger
    /\ faults = [r \in Routes |-> {}]
    /\ NoFileWriter
    /\ zone = 0
    /\ others = {}
    /\ ppc = [p \in Producers |-> "absent"]
    /\ kpc = [k \in Closers |-> "absent"]
    /\ formatter \in {"json", "text"}
    /\ maxDepth = 0
    /\ heap = <<>>
    /\ fields = <<>>
    /\ fpc = "idle"
    /\ stack = <<>> /\ buf = <<>> /\ visited = {} /\ out = <<>>
    /\ bufPool = <<>> /\ strSlicePool = <<>> /\ visitedPool = <<>>
    /\ formats = 0 /\ prevOut = <<>> /\ rendered = {}
    /\ str \in StringsUpTo(MaxStrLen)
    /\ quoted = <<>>
    /\ NoBridge

\* writeJSONString of loggo/core/formatter/json.go
writeJSONString ==
    /\ formatter = "json"
    /\ quoted = <<>>
    /\ quoted' = Quote(addMultilinePrefixCore(str))
    /\ UNCHANGED <<pipelineVars, faults, fileVars, fmtVars, dirVars, str,
                   bridgeVars>>

\* renderText of loggo/formatter/text.go, the case of a string
renderString ==
    /\ formatter = "text"
    /\ quoted = <<>>
    /\ quoted' = Quote(addMultilinePrefix(str))
    /\ UNCHANGED <<pipelineVars, faults, fileVars, fmtVars, dirVars, str,
                   bridgeVars>>

NextString == writeJSONString \/ renderString

SpecString == InitString /\ [][NextString]_vars

\* the string with every CR LF and every other LF replaced by LF and the
\* continuation prefix "| ", in one pass over the characters
RECURSIVE Continued(_)
Continued(s) ==
    IF s = <<>> THEN <<>>
    ELSE IF Len(s) >= 2 /\ s[1] = CR /\ s[2] = LF
    THEN <<LF, "|", " ">> \o Continued(SubSeq(s, 3, Len(s)))
    ELSE IF s[1] = LF THEN <<LF, "|", " ">> \o Continued(Tail(s))
    ELSE <<s[1]>> \o Continued(Tail(s))

\* C35: string rendering turns every CRLF into LF and inserts the
\* continuation prefix "| " after every LF before escaping, so that
\* "hello\nworld" is emitted as "hello\n| world"; a string without a newline
\* is emitted unchanged apart from escaping.
C35_ContinuationPrefixAfterLF ==
    quoted /= <<>> =>
        /\ quoted = Quote(Continued(str))
        /\ (str = <<"hello", LF, "world">> =>
              quoted = <<"\"", "hello", "\\n", "|", " ", "world", "\"">>)
        /\ (~Contains(str, <<LF>>) => quoted = Quote(str))

(* ------------------------------ the bridge ----------------------------- *)

\* the exported constructors, with the store each one writes
Constructors ==
    {"NewFormatStyle", "NewJsonFormatter", "NewTextFormatter", "NewStdoutWriter",
     "NewFileWriter", "NewRouteProcessor", "NewLoggerWithRoutes",
     "NewLoggerWithSingleRoute"}

KindOf(op) ==
    IF op = "NewFormatStyle" THEN "style"
    ELSE IF op \in {"NewJsonFormatter", "NewTextFormatter"} THEN "formatter"
    ELSE IF op \in {"NewStdoutWriter", "NewFileWriter"} THEN "writer"
    ELSE IF op = "NewRouteProcessor" THEN "route"
    ELSE "logger"

\* the handles under which a store of the kind holds a value
Handles(kind) == {o.id : o \in {v \in store : v.kind = kind}}

\* the handles the host passes to a constructor: handles it was given
\* before, and 0 for no style
ArgsOf(op) ==
    IF op \in {"NewJsonFormatter", "NewTextFormatter"}
    THEN {<<h>> : h \in Handles("style") \cup {0}}
    ELSE IF op = "NewRouteProcessor"
    THEN {<<f, w>> : f \in Handles("formatter"), w \in Handles("writer")}
    ELSE IF op = "NewLoggerWithRoutes"
    THEN {<<>>} \cup {<<r>> : r \in Handles("route")}
           \cup {<<pr[1], pr[2]>> :
                    pr \in {x \in Handles("route") \X Handles("route") :
                              x[1] < x[2]}}
    ELSE IF op = "NewLoggerWithSingleRoute"
    THEN {<<r>> : r \in Handles("route")}
    ELSE {<<>>}

\* the constructors that take storeMu themselves before they call makeID:
\* all of them in part_012, NewLoggerWithSingleRoute alone in export.go
LocksAtEntry(op) == bridge = "part012" \/ op = "NewLoggerWithSingleRoute"

\* the constructors that write dependencyStore[id]; export.go has no
\* dependencyStore
RecordsDeps(op) ==
    /\ bridge = "part012"
    /\ op \in {"NewRouteProcessor", "NewTextFormatter", "NewJsonFormatter",
               "NewLoggerWithSingleRoute"}

Returned(op, id) == [NoCall EXCEPT !.pc = "returned", !.op = op, !.id = id]

\* a constructor up to its call of makeID: storeMu.Lock() where the
\* constructor has one, the lookups of the handles passed in, the value
BridgeCall(t, op, args) ==
    /\ bridge /= "none" /\ ~fatal
    /\ bpc[t].pc \in {"idle", "returned"}
    /\ currentID + Cardinality({u \in Callers : bpc[u].pc = "makeID"})
          <= MaxHandles
    /\ LocksAtEntry(op) => storeMu = "free"
    /\ \E failed \in (IF op = "NewFileWriter" THEN BOOLEAN ELSE {FALSE}) :
         IF failed
         THEN /\ bpc' = [bpc EXCEPT ![t] = Returned(op, 0)]
              /\ UNCHANGED storeMu
         ELSE /\ bpc' = [bpc EXCEPT ![t] =
                           [pc |-> "makeID", op |-> op, kind |-> KindOf(op),
                            from |-> SelectSeq(args, LAMBDA h : h /= 0),
                            deps |-> args, id |-> 0]]
              /\ storeMu' = IF LocksAtEntry(op) THEN t ELSE storeMu
    /\ UNCHANGED <<bridge, currentID, store, dependencyStore, closedObjs,
                   freed, fatal>>
    /\ UNCHANGED <<pipelineVars, faults, fileVars, fmtVars, dirVars, strVars>>

\* makeID: storeMu.Lock(), id := currentID, currentID++, Unlock.  The
\* mutex is not reentrant: a caller that holds it waits like any other
makeID(t) ==
    /\ ~fatal
    /\ bpc[t].pc = "makeID"
    /\ storeMu = "free"
    /\ bpc' = [bpc EXCEPT ![t].pc = "write", ![t].id = currentID]
    /\ currentID' = currentID + 1
    /\ UNCHANGED <<bridge, storeMu, store, dependencyStore, closedObjs, freed,
                   fatal>>
    /\ UNCHANGED <<pipelineVars, faults, fileVars, fmtVars, dirVars, strVars>>

\* another caller is between its makeID and its write to the same map
\* without holding storeMu
Racing(t, kind) ==
    \E u \in Callers \ {t} :
        bpc[u].pc = "write" /\ bpc[u].kind = kind /\ storeMu /= u

\* a constructor after makeID: the write to its store and, in part_012, to
\* dependencyStore; the deferred Unlock; return of the handle.  Two
\* unsynchronised writes to one map either both land or stop the process
StoreWrite(t) ==
    /\ ~fatal
    /\ bpc[t].pc = "write"
    /\ \E crash \in (IF Racing(t, bpc[t].kind) /\ storeMu /= t
                      THEN BOOLEAN ELSE {FALSE}) :
         IF crash
         THEN /\ fatal' = TRUE
              /\ UNCHANGED <<store, dependencyStore, storeMu, bpc>>
         ELSE /\ store' = store \cup {[id |-> bpc[t].id, kind |-> bpc[t].kind,
                                       from |-> bpc[t].from]}
              /\ dependencyStore' =
                    IF RecordsDeps(bpc[t].op)
                    THEN dependencyStore
                           \cup {[id |-> bpc[t].id, deps |-> bpc[t].deps]}
                    ELSE dependencyStore
              /\ storeMu' = IF storeMu = t THEN "free" ELSE storeMu
              /\ bpc' = [bpc EXCEPT ![t] = Returned(bpc[t].op, bpc[t].id)]
              /\ UNCHANGED fatal
    /\ UNCHANGED <<bridge, currentID, closedObjs, freed>>
    /\ UNCHANGED <<pipelineVars, faults, fileVars, fmtVars, dirVars, strVars>>

\* the handles freeComponentAndDeps(id) visits: id and, through
\* dependencyStore, the handles recorded for it
RECURSIVE freeComponentAndDeps(_)
freeComponentAndDeps(id) ==
    {id} \cup UNION {UNION {freeComponentAndDeps(e.deps[i]) : i \in 1..Len(e.deps)} :
                       e \in {d \in dependencyStore : d.id = id}}

\* the values a registered value was built from, and theirs
RECURSIVE Components(_)
Components(id) ==
    {o \in store : o.id = id}
      \cup UNION {UNION {Components(o.from[i]) : i \in 1..Len(o.from)} :
                    o \in {v \in store : v.id = id}}

\* FreeLogger: under storeMu, freeComponentAndDeps in part_012 and
\* delete(loggerStore, id) in export.go
FreeLogger(t, id) ==
    /\ bridge /= "none" /\ ~fatal
    /\ bpc[t].pc \in {"idle", "returned"}
    /\ storeMu = "free"
    /\ \E crash \in (IF Racing(t, "logger") THEN BOOLEAN ELSE {FALSE}) :
         IF crash
         THEN /\ fatal' = TRUE
              /\ UNCHANGED <<store, dependencyStore, closedObjs, freed, bpc>>
         ELSE /\ LET gone == IF bridge = "part012" THEN freeComponentAndDeps(id)
                             ELSE {id}
                     kinds == IF bridge = "part012"
                              THEN {"logger", "route", "style", "formatter", "writer"}
                              ELSE {"logger"}
                     removed == {o \in store : o.id \in gone /\ o.kind \in kinds}
                 IN  /\ store' = store \ removed
                     /\ closedObjs' =
                           IF bridge = "part012"
                           THEN closedObjs
                                  \cup {o.id : o \in {v \in removed :
                                                        v.kind \in {"route", "logger"}}}
                           ELSE closedObjs
                     /\ dependencyStore' =
                           {d \in dependencyStore : d.id \notin gone}
              /\ freed' = IF id \in Handles("logger")
                          THEN freed \cup {[id |-> o.id, kind |-> o.kind] :
                                             o \in Components(id)}
                          ELSE freed
              /\ bpc' = [bpc EXCEPT ![t] = Returned("FreeLogger", id)]
              /\ UNCHANGED fatal
    /\ UNCHANGED <<bridge, storeMu, currentID>>
    /\ UNCHANGED <<pipelineVars, faults, fileVars, fmtVars, dirVars, strVars>>

\* the bridge as the host loads it, in either of its two versions
InitBridge ==
    /\ InitLogger
    /\ faults = [r \in Routes |-> {}]
    /\ NoFileWriter
    /\ NoFormatter
    /\ zone = 0
    /\ others = {}
    /\ NoStrings
    /\ ppc = [p \in Producers |-> "absent"]
    /\ kpc = [k \in Closers |-> "absent"]
    /\ bridge \in {"export", "part012"}
    /\ NoBridgeCalls

NextBridge ==
    \/ \E t \in Callers, op \in Constructors :
         \E args \in ArgsOf(op) : BridgeCall(t, op, args)
    \/ \E t \in Callers : makeID(t)
    \/ \E t \in Callers : StoreWrite(t)
    \/ \E t \in Callers, id \in 0..MaxHandles : FreeLogger(t, id)

SpecBridge == InitBridge /\ [][NextBridge]_vars

\* a caller inside makeID or at its store write is scheduled
SpecBridgeFair ==
    SpecBridge /\ \A t \in Callers : WF_vars(makeID(t) \/ StoreWrite(t))

(* ------------------------- claims: the bridge -------------------------- *)

\* C32: every constructor call that has started returns, and a constructor
\* writes its store only while it holds storeMu
C32_ConstructorsReturnUnderMutex ==
    /\ \A t \in Callers :
         (bpc[t].pc \in {"makeID", "write"}) ~> (bpc[t].pc = "returned")
    /\ [](\A t \in Callers : bpc[t].pc = "write" => storeMu = t)

\* C31: every component of a logger that FreeLogger was called for is
\* absent from the stores, and its routes and the logger itself are closed
C31_FreedComponentsClosedAndAbsent ==
    \A c \in freed :
        /\ c.id \notin {o.id : o \in store}
        /\ c.kind \in {"route", "logger"} => c.id \in closedObjs

(* ---------------------- claims: the visited set ------------------------ *)

\* the calls on the current recursion path that marked an identity: their
\* deferred releases are still to run
OpenFrames == {i \in 1..Len(stack) : stack[i].op = "release"}

\* C37: during a Format call the visited set holds exactly the identities
\* of the containers on the current recursion path, each marked by one
\* frame: a release removes the identity of its own frame only, a frame
\* that found a cycle marks and removes nothing, and the set is empty when
\* the top-level values have been rendered.
C37_VisitedIsRecursionPath ==
    fpc \in {"running", "panicking"} =>
        /\ visited = {stack[i].v.x : i \in OpenFrames}
        /\ Cardinality(visited) = Cardinality(OpenFrames)
        /\ (stack /= <<>> /\ Head(stack).op = "return" => visited = {})

\* a frame has written <cycle> for a back-reference two containers deep;
\* the identities of both containers are still marked
C37_Witness ==
    /\ fpc = "running"
    /\ Cardinality(visited) = 2
    /\ Cardinality(OpenFrames) = 2
    /\ buf /= <<>>
    /\ IsCycleToken(buf[Len(buf)])

====
